---- MODULE Spec2Model ----
(***************************************************************************)
(* A model of the FlorisBoard NLP core: the n-gram trie, the .fldic text   *)
(* (de)serializer, the mutable dictionary and the dictionary session with  *)
(* its fuzzy search.                                                       *)
(*                                                                         *)
(* Text is modelled byte by byte: a string is a sequence of byte values    *)
(* (97 is 'a'), a line of a file is a string without its terminating LF,   *)
(* and a file body is a sequence of lines.  A trie node is named by its    *)
(* path: a non-empty sequence of strings <<w1, ..., wk>>, where w1..w(k-1) *)
(* are the words whose subsequent-words tries were entered and wk is the   *)
(* key of the node inside the last trie.  The root is << <<>> >>.          *)
(***************************************************************************)
EXTENDS Integers, Sequences, FiniteSets, TLC

\* ------------------------------------------------------------------------
\* Bounds of the model
\* ------------------------------------------------------------------------
MaxFileLines == 2
MaxScore == 3

\* ------------------------------------------------------------------------
\* Program constants
\* ------------------------------------------------------------------------
FLDIC_SCHEMA_V0_DRAFT1 ==
    << 104, 116, 116, 112, 115, 58, 47, 47, 102, 108, 111, 114, 105, 115, 98, 111,
       97, 114, 100, 46, 111, 114, 103, 47, 115, 99, 104, 101, 109, 97, 115, 47,
       102, 108, 100, 105, 99, 47, 118, 48, 126, 100, 114, 97, 102, 116, 49, 47,
       100, 105, 99, 116, 105, 111, 110, 97, 114, 121, 46, 116, 120, 116 >>
FLDIC_ASSIGNMENT == 61
FLDIC_LIST_SEPARATOR == 44
FLDIC_SEPARATOR == 9
FLDIC_HEADER_SCHEMA == <<115, 99, 104, 101, 109, 97>>
FLDIC_HEADER_NAME == <<110, 97, 109, 101>>
FLDIC_HEADER_LOCALES == <<108, 111, 99, 97, 108, 101, 115>>
FLDIC_HEADER_GENERATED_BY == <<103, 101, 110, 101, 114, 97, 116, 101, 100, 95, 98, 121>>
FLDIC_FLAG_IS_POSSIBLY_OFFENSIVE == 111
FLDIC_FLAG_IS_HIDDEN_BY_USER == 104
FLDIC_SECTION_WORDS == <<91, 119, 111, 114, 100, 115, 93>>
FLDIC_SECTION_SHORTCUTS == <<91, 115, 104, 111, 114, 116, 99, 117, 116, 115, 93>>
SECTION_MARK == 91
HALF_RANGE == 1073741824
SCORE_MAX == 16777215
SCORE_ADJUSTMENT_THRESHOLD == SCORE_MAX - 128
INT_MAX == 2147483647

\* ------------------------------------------------------------------------
\* Strings
\* ------------------------------------------------------------------------
is_whitespace(c) == c \in (9..13) \cup (28..32)

RECURSIVE TrimLeft(_)
TrimLeft(s) ==
    IF s # <<>> /\ is_whitespace(Head(s)) THEN TrimLeft(Tail(s)) ELSE s

RECURSIVE TrimRight(_)
TrimRight(s) ==
    IF s # <<>> /\ is_whitespace(s[Len(s)])
    THEN TrimRight(SubSeq(s, 1, Len(s) - 1))
    ELSE s

trim(s) == TrimLeft(TrimRight(s))

RECURSIVE SplitFrom(_, _, _)
SplitFrom(rest, delim, cur) ==
    IF rest = <<>> THEN <<cur>>
    ELSE IF Head(rest) = delim
         THEN <<cur>> \o SplitFrom(Tail(rest), delim, <<>>)
         ELSE SplitFrom(Tail(rest), delim, Append(cur, Head(rest)))

split(src, delim) == SplitFrom(src, delim, <<>>)

IsDigit(c) == c \in 48..57

RECURSIVE LeadingDigits(_)
LeadingDigits(s) ==
    IF s # <<>> /\ IsDigit(Head(s)) THEN <<Head(s)>> \o LeadingDigits(Tail(s)) ELSE <<>>

RECURSIVE DecimalValue(_)
DecimalValue(ds) ==
    IF ds = <<>> THEN 0
    ELSE 10 * DecimalValue(SubSeq(ds, 1, Len(ds) - 1)) + (ds[Len(ds)] - 48)

RECURSIVE SkipSpace(_)
SkipSpace(s) ==
    IF s # <<>> /\ Head(s) \in (9..13) \cup {32} THEN SkipSpace(Tail(s)) ELSE s

RECURSIVE StripZeros(_)
StripZeros(ds) ==
    IF Len(ds) > 1 /\ Head(ds) = 48 THEN StripZeros(Tail(ds)) ELSE ds

RECURSIVE DigitsLess(_, _)
DigitsLess(a, b) ==
    IF a = <<>> THEN FALSE
    ELSE IF Head(a) # Head(b) THEN Head(a) < Head(b)
    ELSE DigitsLess(Tail(a), Tail(b))

INT_MAX_DIGITS == <<50, 49, 52, 55, 52, 56, 51, 54, 52, 55>>
INT_MIN_DIGITS == <<50, 49, 52, 55, 52, 56, 51, 54, 52, 56>>

\* The magnitude ds (no leading zeros) does not fit an int of sign neg.
OutOfIntRange(ds, neg) ==
    \/ Len(ds) > 10
    \/ /\ Len(ds) = 10
       /\ DigitsLess(IF neg THEN INT_MIN_DIGITS ELSE INT_MAX_DIGITS, ds)

\* std::stoi: leading white space, an optional sign, then decimal digits;
\* what follows the digits is ignored.  No digits: std::invalid_argument;
\* a value outside int: std::out_of_range.
stoi(str) ==
    LET s1 == SkipSpace(str)
        neg == s1 # <<>> /\ Head(s1) = 45
        s2 == IF s1 # <<>> /\ Head(s1) \in {43, 45} THEN Tail(s1) ELSE s1
        ds == StripZeros(LeadingDigits(s2))
    IN  IF ds = <<>> THEN [error |-> "invalid_argument", value |-> 0]
        ELSE IF OutOfIntRange(ds, neg) THEN [error |-> "out_of_range", value |-> 0]
        ELSE IF neg /\ ds = INT_MIN_DIGITS THEN [error |-> "none", value |-> (0 - INT_MAX) - 1]
        ELSE [error |-> "none", value |-> IF neg THEN 0 - DecimalValue(ds) ELSE DecimalValue(ds)]

\* A 32-bit unsigned value (score_t) is held as its bit pattern read as a
\* two's complement int: u for u < 2^31 and u - 2^32 above.  Converting an int
\* to score_t keeps the pattern.
ToScore(v) == v

\* unsigned a < b
ScoreLess(a, b) == IF (a < 0) = (b < 0) THEN a < b ELSE b < 0

\* unsigned a + n for 0 <= n < 2^31, wrapping at 2^32
ScoreAdd(a, n) ==
    IF a >= 0 /\ a > INT_MAX - n THEN ((a - INT_MAX) - 1) + ((n - INT_MAX) - 1) ELSE a + n

RECURSIVE NatToDecimal(_)
NatToDecimal(n) ==
    IF n < 10 THEN <<48 + n>> ELSE NatToDecimal(n \div 10) \o <<48 + (n % 10)>>

\* operator<< of a score_t: the unsigned value in decimal.  For a pattern with
\* the top bit set the value is 2 * half + (u % 2), half = 2^31 + u \div 2.
ToDecimal(u) ==
    IF u >= 0 THEN NatToDecimal(u)
    ELSE LET half == (HALF_RANGE + (u \div 2)) + HALF_RANGE
         IN  NatToDecimal(half \div 5) \o <<48 + 2 * (half % 5) + (u % 2)>>

\* ------------------------------------------------------------------------
\* Trie nodes
\* ------------------------------------------------------------------------
NullNode == <<>>
Root == << <<>> >>

DefaultProperties ==
    [absolute_score |-> 0, is_possibly_offensive |-> FALSE, is_hidden_by_user |-> FALSE]

NewNode == [is_terminal |-> FALSE, properties |-> DefaultProperties]

EmptyTrie == (Root :> NewNode)

Child(n, ch) == [n EXCEPT ![Len(n)] = Append(@, ch)]
KeyNode(n, key) == [n EXCEPT ![Len(n)] = @ \o key]
SubsequentRoot(n) == Append(n, <<>>)

get_child_or_null(t, n, ch) ==
    IF Child(n, ch) \in DOMAIN t THEN Child(n, ch) ELSE NullNode

get_child_or_create(t, n, ch) ==
    IF get_child_or_null(t, n, ch) = NullNode THEN t @@ (Child(n, ch) :> NewNode) ELSE t

RECURSIVE CreatePath(_, _, _)
CreatePath(t, n, key) ==
    IF key = <<>> THEN t
    ELSE CreatePath(get_child_or_create(t, n, Head(key)), Child(n, Head(key)), Tail(key))

\* The node at key below n, created with its path when missing, made terminal.
resolve_key_or_create(t, n, key) ==
    LET t1 == CreatePath(t, n, key)
        m == KeyNode(n, key)
    IN  [trie |-> IF ~t1[m].is_terminal THEN [t1 EXCEPT ![m].is_terminal = TRUE] ELSE t1,
         node |-> m]

RECURSIVE resolve_key_or_null(_, _, _)
resolve_key_or_null(t, n, key) ==
    IF key = <<>> THEN n
    ELSE IF get_child_or_null(t, n, Head(key)) = NullNode THEN NullNode
         ELSE resolve_key_or_null(t, Child(n, Head(key)), Tail(key))

subsequent_words_or_null(t, n) ==
    IF SubsequentRoot(n) \in DOMAIN t THEN SubsequentRoot(n) ELSE NullNode

IsBelow(m, n) == Len(m) > Len(n) /\ SubSeq(m, 1, Len(n)) = n

\* A fresh trie replaces the subsequent-words trie only when one is already
\* there; a node without one keeps none and null is returned.
subsequent_words_or_create(t, n) ==
    IF subsequent_words_or_null(t, n) # NullNode
    THEN [trie |-> [m \in {x \in DOMAIN t : ~IsBelow(x, n)} \cup {SubsequentRoot(n)} |->
                      IF m = SubsequentRoot(n) THEN NewNode ELSE t[m]],
          node |-> SubsequentRoot(n)]
    ELSE [trie |-> t, node |-> subsequent_words_or_null(t, n)]

SignedChar(c) == IF c >= 128 THEN c - 256 ELSE c
is_ctrl_char(c) == SignedChar(c) < 32

LastKey(n) == n[Len(n)]

ChildChars(t, n) ==
    {LastKey(m)[Len(LastKey(m))] :
        m \in {x \in DOMAIN t : /\ Len(x) = Len(n)
                                /\ Len(LastKey(x)) = Len(LastKey(n)) + 1
                                /\ Child(n, LastKey(x)[Len(LastKey(x))]) = x}}

RECURSIVE SortedChars(_)
SortedChars(S) ==
    IF S = {} THEN <<>>
    ELSE LET c == CHOOSE x \in S : \A y \in S : x <= y
         IN  <<c>> \o SortedChars(S \ {c})

\* Pre-order walk below n: the terminal nodes, children in ascending byte order.
RECURSIVE for_each(_, _)
RECURSIVE ForEachChildren(_, _, _)
ForEachChildren(t, n, chars) ==
    IF chars = <<>> THEN <<>>
    ELSE (IF ~is_ctrl_char(Head(chars)) THEN for_each(t, Child(n, Head(chars))) ELSE <<>>)
         \o ForEachChildren(t, n, Tail(chars))

for_each(t, n) ==
    (IF t[n].is_terminal THEN <<n>> ELSE <<>>)
    \o ForEachChildren(t, n, SortedChars(ChildChars(t, n)))

\* ------------------------------------------------------------------------
\* Dictionary: .fldic header
\* ------------------------------------------------------------------------
\* A file is the sequence of its lines, as std::getline yields them.
DefaultHeader ==
    [schema |-> FLDIC_SCHEMA_V0_DRAFT1, name |-> <<>>, locales |-> <<>>, generated_by |-> <<>>]

\* The index of the first FLDIC_ASSIGNMENT of line, 0 when there is none.
FindAssignment(line) ==
    IF \E i \in 1..Len(line) : line[i] = FLDIC_ASSIGNMENT
    THEN CHOOSE i \in 1..Len(line) :
             line[i] = FLDIC_ASSIGNMENT /\ \A j \in 1..(i - 1) : line[j] # FLDIC_ASSIGNMENT
    ELSE 0

\* One "key=value" line of the header.  The locale tags are kept as written:
\* the files of this model carry no locales line.
ReadHeaderLine(header, line) ==
    LET pos == FindAssignment(line)
        key == trim(SubSeq(line, 1, pos - 1))
        value == trim(SubSeq(line, pos + 1, Len(line)))
    IN  IF pos = 0 THEN header
        ELSE IF value = <<>> THEN header
        ELSE IF key = FLDIC_HEADER_SCHEMA THEN [header EXCEPT !.schema = value]
        ELSE IF key = FLDIC_HEADER_NAME THEN [header EXCEPT !.name = value]
        ELSE IF key = FLDIC_HEADER_LOCALES
        THEN [header EXCEPT !.locales = @ \o split(value, FLDIC_LIST_SEPARATOR)]
        ELSE IF key = FLDIC_HEADER_GENERATED_BY THEN [header EXCEPT !.generated_by = value]
        ELSE header

\* DictionaryHeader::readFrom: the lines up to and including the first one
\* that is empty after trimming are the header; rest is what is left in the
\* stream.
RECURSIVE readFrom(_, _)
readFrom(header, lines) ==
    IF lines = <<>> THEN [header |-> header, rest |-> <<>>]
    ELSE IF trim(Head(lines)) = <<>> THEN [header |-> header, rest |-> Tail(lines)]
    ELSE readFrom(ReadHeaderLine(header, trim(Head(lines))), Tail(lines))

RECURSIVE JoinTags(_)
JoinTags(tags) ==
    IF tags = <<>> THEN <<>>
    ELSE IF Len(tags) = 1 THEN Head(tags)
    ELSE Head(tags) \o <<FLDIC_LIST_SEPARATOR>> \o JoinTags(Tail(tags))

\* DictionaryHeader::writeTo: the header lines and the empty line after them.
writeTo(header) ==
    << FLDIC_HEADER_SCHEMA \o <<FLDIC_ASSIGNMENT>> \o header.schema,
       FLDIC_HEADER_NAME \o <<FLDIC_ASSIGNMENT>> \o header.name >>
    \o (IF JoinTags(header.locales) # <<>>
        THEN << FLDIC_HEADER_LOCALES \o <<FLDIC_ASSIGNMENT>> \o JoinTags(header.locales) >>
        ELSE <<>>)
    \o << FLDIC_HEADER_GENERATED_BY \o <<FLDIC_ASSIGNMENT>> \o header.generated_by,
          <<>> >>

\* ------------------------------------------------------------------------
\* Dictionary: .fldic body reader and writer
\* ------------------------------------------------------------------------
RECURSIVE LeadingSeparators(_)
LeadingSeparators(line) ==
    IF line # <<>> /\ Head(line) = FLDIC_SEPARATOR
    THEN 1 + LeadingSeparators(Tail(line))
    ELSE 0

ParseFlags(field) ==
    [is_possibly_offensive |->
        \E i \in 1..Len(field) : field[i] = FLDIC_FLAG_IS_POSSIBLY_OFFENSIVE,
     is_hidden_by_user |->
        \E i \in 1..Len(field) : field[i] = FLDIC_FLAG_IS_HIDDEN_BY_USER]

InitialParentNodes == [i \in 0..8 |-> IF i = 0 THEN Root ELSE NullNode]

\* The state of Dictionary::deserialize before the first line is read
\* (the constructor has set the three maxima to 0).
DeserializeStart ==
    [outcome |-> "ok",
     header |-> DefaultHeader,
     trie |-> EmptyTrie,
     prev_ngram_level |-> 1,
     prev_parent_nodes |-> InitialParentNodes,
     max_unigram_score |-> 0,
     max_bigram_score |-> 0,
     max_trigram_score |-> 0]

Throw(st, what) == [st EXCEPT !.outcome = what]

UpdateMaxScores(st, ngram_level, score) ==
    IF ngram_level = 1 /\ ScoreLess(st.max_unigram_score, score)
    THEN [st EXCEPT !.max_unigram_score = score]
    ELSE IF ngram_level = 2 /\ ScoreLess(st.max_bigram_score, score)
    THEN [st EXCEPT !.max_bigram_score = score]
    ELSE IF ngram_level = 3 /\ ScoreLess(st.max_trigram_score, score)
    THEN [st EXCEPT !.max_trigram_score = score]
    ELSE st

\* Where a line of level ngram_level is attached: the remembered parent, or,
\* when none is remembered, the subsequent-words trie of the node remembered
\* one level up.
FindParent(st, ngram_level) ==
    IF st.prev_parent_nodes[ngram_level - 1] # NullNode
    THEN [trie |-> st.trie, node |-> st.prev_parent_nodes[ngram_level - 1]]
    ELSE subsequent_words_or_create(st.trie, st.prev_parent_nodes[ngram_level - 2])

InsertWordLine(st, ngram_level, parent_node, word, properties) ==
    IF parent_node = NullNode THEN Throw(st, "null_dereference")
    ELSE LET ins == resolve_key_or_create(st.trie, parent_node, word)
             st1 == [st EXCEPT !.trie = [ins.trie EXCEPT ![ins.node].properties = properties],
                               !.prev_ngram_level = ngram_level]
         IN  UpdateMaxScores(st1, ngram_level, properties.absolute_score)

ReadWordLine(st, ngram_level, parent_node, rest) ==
    LET fields == split(rest, FLDIC_SEPARATOR)
    IN  IF Len(fields) < 2 THEN st
        ELSE IF trim(fields[1]) = <<>> THEN st
        ELSE LET parsed == stoi(trim(fields[2]))
                 flags == IF Len(fields) > 2 THEN ParseFlags(trim(fields[3]))
                          ELSE ParseFlags(<<>>)
             IN  IF parsed.error # "none" THEN Throw(st, parsed.error)
                 ELSE InsertWordLine(st, ngram_level, parent_node, trim(fields[1]),
                        [absolute_score |-> ToScore(parsed.value),
                         is_possibly_offensive |-> flags.is_possibly_offensive,
                         is_hidden_by_user |-> flags.is_hidden_by_user])

ProcessLine(st, line) ==
    IF line # <<>> /\ Head(line) = SECTION_MARK THEN st
    ELSE LET ngram_level == LeadingSeparators(line) + 1
             rest == SubSeq(line, ngram_level, Len(line))
         IN  IF ngram_level > 8 \/ ngram_level <= 0
             THEN Throw(st, "DictionarySerializationError")
             ELSE IF ngram_level - st.prev_ngram_level > 1
             THEN Throw(st, "DictionarySerializationError")
             ELSE IF st.prev_parent_nodes[ngram_level - 1] = NullNode /\ ngram_level <= 1
             THEN Throw(st, "DictionarySerializationError")
             ELSE IF /\ st.prev_parent_nodes[ngram_level - 1] = NullNode
                     /\ st.prev_parent_nodes[ngram_level - 2] = NullNode
             THEN Throw(st, "null_dereference")
             ELSE LET parent == FindParent(st, ngram_level)
                      st1 == [st EXCEPT !.trie = parent.trie,
                                        !.prev_parent_nodes[ngram_level - 1] = parent.node]
                  IN  ReadWordLine(st1, ngram_level, parent.node, rest)

RECURSIVE DeserializeFrom(_, _)
DeserializeFrom(st, lines) ==
    IF lines = <<>> \/ st.outcome # "ok" THEN st
    ELSE DeserializeFrom(ProcessLine(st, Head(lines)), Tail(lines))

deserialize(lines) ==
    LET read == readFrom(DefaultHeader, lines)
    IN  DeserializeFrom([DeserializeStart EXCEPT !.header = read.header], read.rest)

DictOf(st) ==
    [header |-> st.header,
     trie |-> st.trie,
     max_unigram_score |-> st.max_unigram_score,
     max_bigram_score |-> st.max_bigram_score,
     max_trigram_score |-> st.max_trigram_score]

NoFile == [exists |-> FALSE, lines |-> <<>>]
FileOf(lines) == [exists |-> TRUE, lines |-> lines]

\* Dictionary(path): the outcome is "ok" with the dictionary read, or the
\* exception that ended the construction.
DictionaryFromFile(file) ==
    IF file.exists
    THEN LET st == deserialize(file.lines)
         IN  [outcome |-> st.outcome, dict |-> DictOf(st)]
    ELSE [outcome |-> "runtime_error", dict |-> DictOf(DeserializeStart)]

RECURSIVE Separators(_)
Separators(n) == IF n <= 0 THEN <<>> ELSE <<FLDIC_SEPARATOR>> \o Separators(n - 1)

WriteWordLine(word, properties, ngram_level) ==
    Separators(ngram_level - 1) \o word \o <<FLDIC_SEPARATOR>>
    \o ToDecimal(properties.absolute_score)
    \o (IF properties.is_possibly_offensive \/ properties.is_hidden_by_user
        THEN <<FLDIC_SEPARATOR>>
             \o (IF properties.is_possibly_offensive
                 THEN <<FLDIC_FLAG_IS_POSSIBLY_OFFENSIVE>> ELSE <<>>)
             \o (IF properties.is_hidden_by_user
                 THEN <<FLDIC_FLAG_IS_HIDDEN_BY_USER>> ELSE <<>>)
        ELSE <<>>)

RECURSIVE trieWriteNgramsTo(_, _, _)
RECURSIVE WriteTerminals(_, _, _)
WriteTerminals(t, terminals, ngram_level) ==
    IF terminals = <<>> THEN <<>>
    ELSE <<WriteWordLine(LastKey(Head(terminals)), t[Head(terminals)].properties, ngram_level)>>
         \o trieWriteNgramsTo(t, subsequent_words_or_null(t, Head(terminals)), ngram_level + 1)
         \o WriteTerminals(t, Tail(terminals), ngram_level)

trieWriteNgramsTo(t, base_node, ngram_level) ==
    IF base_node = NullNode THEN <<>>
    ELSE WriteTerminals(t, for_each(t, base_node), ngram_level)

serialize(d) ==
    writeTo(d.header) \o <<FLDIC_SECTION_WORDS>> \o trieWriteNgramsTo(d.trie, Root, 1)

contains(d, word) == resolve_key_or_null(d.trie, Root, word) # NullNode

\* ------------------------------------------------------------------------
\* Suggestion request flags, candidates and spelling results
\* ------------------------------------------------------------------------
M_MAX_SUGGESTION_COUNT == 255
F_ALLOW_POSSIBLY_OFFENSIVE == 256

RESULT_UNSPECIFIED == 0
RESULT_ATTR_IN_THE_DICTIONARY == 1
RESULT_ATTR_LOOKS_LIKE_TYPO == 2
RESULT_ATTR_HAS_RECOMMENDED_SUGGESTIONS == 4

\* Confidence is held in thousandths: the double 1.0 is 1000, 0.9 is 900.
CONFIDENCE_ONE == 1000
SUGGESTION_CANDIDATE_MIN_CONFIDENCE == 0
SUGGESTION_CANDIDATE_MAX_CONFIDENCE == 900

\* flags & M_MAX_SUGGESTION_COUNT, for the non-negative flag words drawn here
maxSuggestionCount(flags) == flags % (M_MAX_SUGGESTION_COUNT + 1)

\* (flags & F_ALLOW_POSSIBLY_OFFENSIVE) != 0
allowPossiblyOffensive(flags) == (flags \div F_ALLOW_POSSIBLY_OFFENSIVE) % 2 = 1

NoSpellingResult == [suggestion_attributes |-> -1, suggestions |-> <<>>]

unspecified == [suggestion_attributes |-> RESULT_UNSPECIFIED, suggestions |-> <<>>]

validWord == [suggestion_attributes |-> RESULT_ATTR_IN_THE_DICTIONARY, suggestions |-> <<>>]

\* The attribute bits are disjoint, so the bitwise or is a sum.
typo(suggestions, is_high_confidence_result) ==
    [suggestion_attributes |->
        RESULT_ATTR_LOOKS_LIKE_TYPO
        + (IF is_high_confidence_result THEN RESULT_ATTR_HAS_RECOMMENDED_SUGGESTIONS ELSE 0),
     suggestions |-> suggestions]

\* ------------------------------------------------------------------------
\* FuzzySearchState
\* ------------------------------------------------------------------------
MAX_COST == 6
COST_IS_EQUAL == 0
COST_IS_OPPOSITE_CASE == 1
COST_INSERT == 2
COST_DELETE == 2
COST_SUBSTITUTE_DEFAULT == 2
COST_SUBSTITUTE_IN_PROXIMITY == 1
COST_TRANSPOSE == 1
PENALTY_DEFAULT == 0
PENALTY_START_OF_STR == 2

Min(a, b) == IF b < a THEN b ELSE a

\* Case mapping of one ASCII grapheme.
uppercase(c) == IF c >= 97 /\ c <= 122 THEN c - 32 ELSE c
lowercase(c) == IF c >= 65 /\ c <= 90 THEN c + 32 ELSE c

\* The grapheme in the other case: upper-cased if that changes it, else
\* lower-cased.
OppositeCase(c) == IF uppercase(c) # c THEN uppercase(c) ELSE lowercase(c)

\* word_chars and word_chars_opposite_case hold the graphemes of the word at
\* indices 1..W; the empty cell at index 0 is not stored.
initWordChars(word) ==
    [word_chars |-> word,
     word_chars_opposite_case |-> [i \in 1..Len(word) |-> OppositeCase(word[i])]]

\* The penalty of the cell (prefix_index, i).
Penalty(prefix_index, i) ==
    IF prefix_index = 1 /\ i = 1 THEN PENALTY_START_OF_STR ELSE PENALTY_DEFAULT

\* is_in_proximity(assumed, actual) over the pairs <<actual, assumed>> of the
\* loaded map.
is_in_proximity(data, assumed, actual) == <<actual, assumed>> \in data

\* A substitution cost that charges the penalty for the opposite case too.
SubstitutionCostWithCasePenalty(state, prefix_index, chstr, i) ==
    IF state.word_chars[i] = chstr THEN COST_IS_EQUAL
    ELSE IF state.word_chars_opposite_case[i] = chstr
         THEN COST_IS_OPPOSITE_CASE + Penalty(prefix_index, i)
    ELSE IF /\ prefix_index > 1
            /\ i > 1
            /\ state.prefix_chars[prefix_index - 1] = state.word_chars[i]
            /\ chstr = state.word_chars[i - 1]
         THEN COST_TRANSPOSE - 1 + Penalty(prefix_index, i)
    ELSE COST_SUBSTITUTE_DEFAULT + Penalty(prefix_index, i)

\* substitution_cost of the cell (prefix_index, i) for the trie grapheme
\* chstr. The branch on session.key_proximity_mapping is commented out in the
\* code: the map is not consulted.
SubstitutionCost(state, prefix_index, chstr, i) ==
    IF state.word_chars[i] = chstr THEN COST_IS_EQUAL
    ELSE IF state.word_chars_opposite_case[i] = chstr THEN COST_IS_OPPOSITE_CASE
    ELSE IF /\ prefix_index > 1
            /\ i > 1
            /\ state.prefix_chars[prefix_index - 1] = state.word_chars[i]
            /\ chstr = state.word_chars[i - 1]
         THEN COST_TRANSPOSE - 1 + Penalty(prefix_index, i)
    ELSE COST_SUBSTITUTE_DEFAULT + Penalty(prefix_index, i)

\* The inner loop of setPrefixChstrAt from column i on; row holds the columns
\* 0..i-1 of distances[prefix_index].
RECURSIVE PrefixRowFrom(_, _, _, _, _)
PrefixRowFrom(state, prefix_index, chstr, row, i) ==
    IF i > Len(state.word_chars) THEN row
    ELSE LET substitution_cost == SubstitutionCost(state, prefix_index, chstr, i)
             above == state.distances[prefix_index - 1]
             cell == Min(Min(above[i] + COST_INSERT, row[i - 1] + COST_DELETE),
                         above[i - 1] + substitution_cost)
         IN  PrefixRowFrom(state, prefix_index, chstr, row @@ (i :> cell), i + 1)

\* Rows and prefix graphemes above prefix_index are stale in the code and are
\* rewritten before they are read; they are dropped here.
setPrefixChstrAt(state, prefix_index, chstr) ==
    IF prefix_index > 0
    THEN [state EXCEPT
            !.prefix_chars = Append(SubSeq(@, 1, prefix_index - 1), chstr),
            !.distances =
                [p \in 0..prefix_index |->
                    IF p < prefix_index THEN @[p]
                    ELSE PrefixRowFrom(state, prefix_index, chstr,
                                       (0 :> prefix_index * COST_INSERT), 1)]]
    ELSE [state EXCEPT
            !.prefix_chars = <<>>,
            !.distances = (0 :> [i \in 0..Len(state.word_chars) |-> i * COST_INSERT])]

FuzzySearchState(type, max_distance, flags, word) ==
    setPrefixChstrAt(
        [type |-> type,
         max_distance |-> max_distance,
         flags |-> flags,
         word_chars |-> initWordChars(word).word_chars,
         word_chars_opposite_case |-> initWordChars(word).word_chars_opposite_case,
         prefix_chars |-> <<>>,
         distances |-> <<>>],
        0, 0)

editDistanceAt(state, prefix_index) ==
    state.distances[prefix_index][Len(state.word_chars)]

prefixStrAt(state, prefix_index) == SubSeq(state.prefix_chars, 1, prefix_index)

isDeadEndAt(state, prefix_index) ==
    IF prefix_index < Len(state.word_chars)
    THEN state.distances[prefix_index][prefix_index] >= state.max_distance
    ELSE editDistanceAt(state, prefix_index) >= state.max_distance

\* ------------------------------------------------------------------------
\* DictionarySession: fuzzy search
\* ------------------------------------------------------------------------
\* A result check that forgets the hidden words.
IgnoredOffensiveOnly(properties, flags) ==
    properties.is_possibly_offensive /\ ~allowPossiblyOffensive(flags)

\* The terminals the result check passes over.
IsIgnored(properties, flags) ==
    \/ (properties.is_possibly_offensive /\ ~allowPossiblyOffensive(flags))
    \/ properties.is_hidden_by_user

\* The on_result calls made at this node: at most one.
ResultCheck(t, node, state, prefix_index) ==
    IF /\ editDistanceAt(state, prefix_index) <= state.max_distance
       /\ t[node].is_terminal
       /\ ~IsIgnored(t[node].properties, state.flags)
       /\ prefixStrAt(state, prefix_index) # <<>>
    THEN << [text |-> prefixStrAt(state, prefix_index),
             node |-> node,
             cost |-> editDistanceAt(state, prefix_index)] >>
    ELSE <<>>

\* The sequences of on_result calls the walk below node can make: one for
\* every order in which the children map can be iterated.
RECURSIVE fuzzySearchRecursiveDld(_, _, _, _)
RECURSIVE SearchChildren(_, _, _, _, _)
SearchChildren(t, node, state, prefix_index, chars) ==
    IF chars = {} THEN {<<>>}
    ELSE UNION {
            { first \o rest :
                first \in fuzzySearchRecursiveDld(
                              t, Child(node, chstr),
                              setPrefixChstrAt(state, prefix_index + 1, chstr),
                              prefix_index + 1),
                rest \in SearchChildren(t, node, state, prefix_index, chars \ {chstr}) }
            : chstr \in chars }

fuzzySearchRecursiveDld(t, node, state, prefix_index) ==
    IF isDeadEndAt(state, prefix_index)
    THEN { ResultCheck(t, node, state, prefix_index) }
    ELSE { ResultCheck(t, node, state, prefix_index) \o below :
             below \in SearchChildren(t, node, state, prefix_index, ChildChars(t, node)) }

fuzzySearch(t, root_node, type, max_distance, flags, word) ==
    IF word = <<>> THEN {<<>>}
    ELSE fuzzySearchRecursiveDld(t, root_node,
                                 FuzzySearchState(type, max_distance, flags, word), 0)

suggestions_sorter(a, b) ==
    IF a.edit_distance = b.edit_distance
    THEN a.confidence > b.confidence
    ELSE a.edit_distance < b.edit_distance /\ a.confidence * 100 > b.confidence

\* The orders of the entries r[i], i in I, in which no entry is placed after
\* one that the comparator puts behind it.
RECURSIVE SortedOrders(_, _)
SortedOrders(r, I) ==
    IF I = {} THEN {<<>>}
    ELSE UNION {
            { <<r[i]>> \o rest : rest \in SortedOrders(r, I \ {i}) }
            : i \in {j \in I : \A k \in I : ~suggestions_sorter(r[k], r[j])} }

\* A callback that leaves the vector as pushed.
UnsortedVector(r) == {r}

\* std::sort(results.begin(), results.end(), suggestions_sorter): not stable,
\* so any order the comparator accepts.
sort(r) == SortedOrders(r, DOMAIN r)

\* A cap that erases results.begin() instead of the last entry.
EraseFirstOnOverflow(r, flags) ==
    IF Len(r) > maxSuggestionCount(flags) THEN Tail(r) ELSE r

\* if (results.size() > flags.maxSuggestionCount()) results.erase(results.end() - 1)
EraseOverflow(r, flags) ==
    IF Len(r) > maxSuggestionCount(flags) THEN SubSeq(r, 1, Len(r) - 1) ELSE r

\* The candidate the callback of spell and of suggest builds.
MakeCandidate(suggested_word, node, cost) ==
    [text |-> suggested_word,
     secondary_text |-> <<>>,
     edit_distance |-> cost,
     confidence |-> CONFIDENCE_ONE]

\* A valid-word test that accepts every node, terminal or not.
ResolvesToAnyNode(t, word_chars) == resolve_key_or_null(t, Root, word_chars) # NullNode

\* word_node != nullptr && word_node->is_terminal
IsValidWord(t, word_chars) ==
    /\ resolve_key_or_null(t, Root, word_chars) # NullNode
    /\ t[resolve_key_or_null(t, Root, word_chars)].is_terminal

\* ------------------------------------------------------------------------
\* Inputs of the dictionary specification
\* ------------------------------------------------------------------------
Words == {<<97>>, <<97, 98>>, <<98>>}

Increments == {1, 2}

DictLines ==
    { FLDIC_SECTION_WORDS,
      FLDIC_SECTION_SHORTCUTS,
      <<97, 9, 49>>,
      <<97, 98, 9, 50, 9, 111, 104>>,
      <<97>>,
      <<9, 98, 9, 49>>,
      <<9, 9, 98, 9, 49>>,
      <<9, 9, 9, 9, 9, 9, 9, 9, 98, 9, 49>> }

RECURSIVE SeqsUpTo(_, _)
SeqsUpTo(S, n) ==
    IF n = 0 THEN {<<>>}
    ELSE SeqsUpTo(S, n - 1) \cup
         {Append(q, x) : q \in {r \in SeqsUpTo(S, n - 1) : Len(r) = n - 1}, x \in S}

\* "name=x"
NameLine == FLDIC_HEADER_NAME \o <<FLDIC_ASSIGNMENT, 120>>

\* The lines before the body: an empty header, a header with a name, and no
\* header end at all.
HeaderChoices == { << <<>> >>, << NameLine, <<>> >>, <<>> }

\* a 16777215 (SCORE_MAX), b 1
HighScoreFile ==
    FileOf(<< <<>>, FLDIC_SECTION_WORDS,
              <<97, 9, 49, 54, 55, 55, 55, 50, 49, 53>>, <<98, 9, 49>> >>)

\* a -1, b 16777216 (SCORE_MAX + 1)
OutOfRangeScoreFile ==
    FileOf(<< <<>>, FLDIC_SECTION_WORDS,
              <<97, 9, 45, 49>>, <<98, 9, 49, 54, 55, 55, 55, 50, 49, 54>> >>)

StartFiles ==
    { NoFile,
      FileOf(<<>>),
      HighScoreFile,
      OutOfRangeScoreFile,
      FileOf(<< NameLine, <<>>,
                FLDIC_SECTION_WORDS, <<97, 9, 49>>, <<97, 98, 9, 50, 9, 111, 104>> >>) }

DictFiles ==
    {NoFile} \cup
    {FileOf(h \o ls) : h \in HeaderChoices, ls \in SeqsUpTo(DictLines, MaxFileLines)}

\* ------------------------------------------------------------------------
\* Inputs of the session specification
\* ------------------------------------------------------------------------
MaxBase == 2

\* duck 900, fuck 10 (possibly offensive), dock 500, du 7, duc 3 (hidden)
SessionFileA ==
    FileOf(<< NameLine, <<>>,
              FLDIC_SECTION_WORDS,
              <<100, 117, 99, 107, 9, 57, 48, 48>>,
              <<102, 117, 99, 107, 9, 49, 48, 9, 111>>,
              <<100, 111, 99, 107, 9, 53, 48, 48>>,
              <<100, 117, 9, 55>>,
              <<100, 117, 99, 9, 51, 9, 104>> >>)

\* a 1, ab 2 (possibly offensive and hidden)
SessionFileB ==
    FileOf(<< <<>>, FLDIC_SECTION_WORDS, <<97, 9, 49>>, <<97, 98, 9, 50, 9, 111, 104>> >>)

\* a level-2 line as the first body line
SessionFileC == FileOf(<< <<>>, FLDIC_SECTION_WORDS, <<9, 98, 9, 49>> >>)

\* a 1, then a line whose score is no number
SessionFileD == FileOf(<< <<>>, FLDIC_SECTION_WORDS, <<97, 9, 49>>, <<98, 9, 120>> >>)

SessionFiles == {NoFile, SessionFileA, SessionFileB, SessionFileC, SessionFileD}

UserFiles == {NoFile, SessionFileB, SessionFileD}

\* "", "fck", "duk", "duck", "duc", "do", "ab", "dcuk", "Duck", "duCk", "A",
\* "dpck"
QueryWords ==
    { <<>>,
      <<102, 99, 107>>,
      <<100, 117, 107>>,
      <<100, 117, 99, 107>>,
      <<100, 117, 99>>,
      <<100, 111>>,
      <<97, 98>>,
      <<100, 99, 117, 107>>,
      <<68, 117, 99, 107>>,
      <<100, 117, 67, 107>>,
      <<65>>,
      <<100, 112, 99, 107>> }

\* The keys next to 'p' and 'o' on a qwerty layout, as <<actual, assumed>>.
ProximityMaps ==
    { { <<112, 111>>, <<112, 108>>, <<111, 105>>, <<111, 112>>, <<111, 108>>, <<111, 107>> } }

\* max_suggestion_count 0, 1, 2 and 8; 258 is count 2 with allow_possibly_offensive
QueryFlags == {0, 1, 2, 8, 258}

\* ------------------------------------------------------------------------
\* Wiktextract preprocessor
\* ------------------------------------------------------------------------
FLAG_FILTER_NAME_DEFAULT_VALUE == "root"
MERGING_MAX_DEPTH == 0
MERGING_MAX_DEPTH_WITH_FO == 2

\* The counters of a word_evaluator are short: 16 bits, two's complement.
SHORT_MAX == 32767
SHORT_RANGE == 65536

\* The conversion of an int result back to short.
ToShort(v) == ((v + SHORT_MAX + 1) % SHORT_RANGE) - (SHORT_MAX + 1)

\* std::regex_match for the patterns of this model: every byte of the pattern
\* stands for itself, except '.', which stands for any one byte.
regex_match(word, regex) ==
    /\ Len(word) = Len(regex)
    /\ \A i \in 1..Len(word) : regex[i] = 46 \/ regex[i] = word[i]

EmptyRule == [words |-> {}, tags |-> {}, categories |-> {}]

\* filter_rule::matches
matches(rule, word, tags, categories) ==
    \/ \E regex \in rule.words : regex_match(word, regex)
    \/ \E tag \in rule.tags : tag \in tags
    \/ \E category \in rule.categories : category \in categories

FALLBACK_FILTER == [name |-> "fallback", excluded |-> EmptyRule, offensive |-> EmptyRule]

\* wiktextract_config::get_filter: the first filter of that name, else the
\* first filter named "root", else the fallback.
get_filter(filters, filter_name) ==
    IF \E i \in DOMAIN filters : filters[i].name = filter_name
    THEN filters[CHOOSE i \in DOMAIN filters :
                     /\ filters[i].name = filter_name
                     /\ \A j \in 1..(i - 1) : filters[j].name # filter_name]
    ELSE IF \E i \in DOMAIN filters : filters[i].name = FLAG_FILTER_NAME_DEFAULT_VALUE
    THEN filters[CHOOSE i \in DOMAIN filters :
                     /\ filters[i].name = FLAG_FILTER_NAME_DEFAULT_VALUE
                     /\ \A j \in 1..(i - 1) : filters[j].name # FLAG_FILTER_NAME_DEFAULT_VALUE]
    ELSE FALLBACK_FILTER

\* word_evaluator
NewEvaluator ==
    [form_ofs |-> <<>>, exclusion_count |-> 0, offensive_count |-> 0, normal_count |-> 0]

\* An exclusion test that lets ties pass.
IsStrictlyExcluded(e) ==
    e.exclusion_count > e.offensive_count /\ e.exclusion_count > e.normal_count

is_word_excluded(e) ==
    e.exclusion_count >= e.offensive_count /\ e.exclusion_count >= e.normal_count

is_word_offensive(e) == e.offensive_count >= e.normal_count

\* One sense of a line: form_of and alt_of hold the word of their element 0,
\* <<>> when the sense has no such field.
ReadSense(word_data, filter, word, sense) ==
    LET noted == IF sense.form_of # <<>>
                 THEN [word_data EXCEPT !.form_ofs = Append(@, sense.form_of)]
                 ELSE IF sense.alt_of # <<>>
                 THEN [word_data EXCEPT !.form_ofs = Append(@, sense.alt_of)]
                 ELSE word_data
    IN  IF matches(filter.excluded, word, sense.tags, sense.categories)
        THEN [noted EXCEPT !.exclusion_count = ToShort(@ + 1)]
        ELSE IF matches(filter.offensive, word, sense.tags, sense.categories)
        THEN [noted EXCEPT !.offensive_count = ToShort(@ + 1)]
        ELSE [noted EXCEPT !.normal_count = ToShort(@ + 1)]

RECURSIVE ReadSenses(_, _, _, _)
ReadSenses(word_data, filter, word, senses) ==
    IF senses = <<>> THEN word_data
    ELSE LET read == ReadSense(word_data, filter, word, Head(senses))
         \* (the test holds and makes the evaluation of read strict)
         IN  IF Len(read.form_ofs) >= 0
             THEN ReadSenses(read, filter, word, Tail(senses))
             ELSE read

\* One line of the wiktextract file: a line without word, pos or senses is
\* passed over; any other finds or makes parsed_data[word][pos].
ReadLine(parsed, filter, entry) ==
    IF ~entry.complete THEN parsed
    ELSE LET key == <<entry.word, entry.pos>>
             word_data == IF key \in DOMAIN parsed THEN parsed[key] ELSE NewEvaluator
         IN  [k \in DOMAIN parsed \cup {key} |->
                 IF k = key THEN ReadSenses(word_data, filter, entry.word, entry.senses)
                 ELSE parsed[k]]

RECURSIVE merge_evaluator_counts(_, _, _, _, _, _)
RECURSIVE MergeFormOfs(_, _, _, _, _, _)
MergeFormOfs(parsed, target_evaluator, form_ofs, pos, max_depth, depth) ==
    IF form_ofs = <<>> THEN target_evaluator
    ELSE LET merged ==
                 IF <<Head(form_ofs), pos>> \in DOMAIN parsed
                 THEN merge_evaluator_counts(parsed, target_evaluator,
                                             parsed[<<Head(form_ofs), pos>>],
                                             pos, max_depth, depth + 1)
                 ELSE target_evaluator
         \* (a target evaluator carries no form_ofs: the test holds and makes
         \* the evaluation of merged strict)
         IN  IF merged.form_ofs = <<>>
             THEN MergeFormOfs(parsed, merged, Tail(form_ofs), pos, max_depth, depth)
             ELSE merged

\* A merge that adds the counts of every depth once.
MergeUnweighted(parsed, target_evaluator, pos_evaluator, pos, max_depth, depth) ==
    LET added ==
            [target_evaluator EXCEPT
                !.exclusion_count = ToShort(@ + pos_evaluator.exclusion_count),
                !.offensive_count = ToShort(@ + pos_evaluator.offensive_count),
                !.normal_count = ToShort(@ + pos_evaluator.normal_count)]
    IN  IF depth >= max_depth THEN added
        ELSE MergeFormOfs(parsed, added, pos_evaluator.form_ofs, pos, max_depth, depth)

merge_evaluator_counts(parsed, target_evaluator, pos_evaluator, pos, max_depth, depth) ==
    LET added ==
            [target_evaluator EXCEPT
                !.exclusion_count = ToShort(@ + (depth + 1) * pos_evaluator.exclusion_count),
                !.offensive_count = ToShort(@ + (depth + 1) * pos_evaluator.offensive_count),
                !.normal_count = ToShort(@ + (depth + 1) * pos_evaluator.normal_count)]
    IN  IF depth >= max_depth THEN added
        ELSE MergeFormOfs(parsed, added, pos_evaluator.form_ofs, pos, max_depth, depth)

\* The calls of merge_evaluator_counts that one call at depth makes, itself
\* included, as the sequence of their depths in the order of the calls.
RECURSIVE MergeCalls(_, _, _, _, _)
RECURSIVE MergeCallsOneDeeper(_, _, _, _, _)
RECURSIVE MergeCallsOfFormOfs(_, _, _, _, _, _)
MergeCallsOfFormOfs(parsed, form_ofs, pos, max_depth, depth, deeper) ==
    IF form_ofs = <<>> THEN <<>>
    ELSE LET calls ==
                 IF <<Head(form_ofs), pos>> \in DOMAIN parsed
                 THEN IF deeper
                      THEN MergeCallsOneDeeper(parsed, parsed[<<Head(form_ofs), pos>>], pos,
                                               max_depth, depth + 1)
                      ELSE MergeCalls(parsed, parsed[<<Head(form_ofs), pos>>], pos,
                                      max_depth, depth + 1)
                 ELSE <<>>
         \* (the test holds and makes the evaluation of calls strict)
         IN  IF Len(calls) >= 0
             THEN calls \o MergeCallsOfFormOfs(parsed, Tail(form_ofs), pos, max_depth, depth,
                                               deeper)
             ELSE calls

\* The calls of a merge that returns when depth > max_depth.
MergeCallsOneDeeper(parsed, pos_evaluator, pos, max_depth, depth) ==
    <<depth>> \o
        (IF depth > max_depth THEN <<>>
         ELSE MergeCallsOfFormOfs(parsed, pos_evaluator.form_ofs, pos, max_depth, depth, TRUE))

MergeCalls(parsed, pos_evaluator, pos, max_depth, depth) ==
    <<depth>> \o
        (IF depth >= max_depth THEN <<>>
         ELSE MergeCallsOfFormOfs(parsed, pos_evaluator.form_ofs, pos, max_depth, depth, FALSE))

PosOf(parsed, word) == {k[2] : k \in {x \in DOMAIN parsed : x[1] = word}}

\* The loop over pos_map of one word, for one of the two evaluators.
RECURSIVE MergePosMap(_, _, _, _, _)
MergePosMap(parsed, target_evaluator, word, poss, max_depth) ==
    IF poss = {} THEN target_evaluator
    ELSE LET pos2 == CHOOSE x \in poss : TRUE
         IN  MergePosMap(parsed,
                         merge_evaluator_counts(parsed, target_evaluator, parsed[<<word, pos2>>],
                                                pos2, max_depth, 0),
                         word, poss \ {pos2}, max_depth)

MergedEvaluator(parsed, word, max_depth) ==
    MergePosMap(parsed, NewEvaluator, word, PosOf(parsed, word), max_depth)

\* u_isalpha, for the ASCII code points of this model
u_isalpha(cp) == cp \in (65..90) \cup (97..122)

validate_word(word) ==
    \A i \in 1..Len(word) : u_isalpha(word[i]) \/ word[i] = 39 \/ word[i] = 45

\* The branch one pass of the insertion loop takes for word.
InsertionBranch(parsed, word) ==
    LET evaluator == MergedEvaluator(parsed, word, MERGING_MAX_DEPTH)
        evaluator_with_fo == MergedEvaluator(parsed, word, MERGING_MAX_DEPTH_WITH_FO)
    IN  IF is_word_excluded(evaluator) \/ is_word_excluded(evaluator_with_fo) THEN "excluded"
        ELSE IF ~validate_word(word) THEN "excluded"
        ELSE IF is_word_offensive(evaluator_with_fo) THEN "offensive"
        ELSE "normal"

\* properties.absolute_score += count, count a short converted to score_t
ScoreAddShort(a, count) == IF count >= 0 THEN ScoreAdd(a, count) ELSE a + count

\* auto& properties = dict.insert(word), then the updates of the branch
InsertEvaluated(trie, parsed, word, branch) ==
    LET ins == resolve_key_or_create(trie, Root, word)
        evaluator_with_fo == MergedEvaluator(parsed, word, MERGING_MAX_DEPTH_WITH_FO)
    IN  IF branch = "offensive"
        THEN [ins.trie EXCEPT
                 ![ins.node].properties.absolute_score =
                     ScoreAddShort(@, evaluator_with_fo.offensive_count),
                 ![ins.node].properties.is_possibly_offensive = TRUE]
        ELSE IF branch = "normal"
        THEN [ins.trie EXCEPT
                 ![ins.node].properties.absolute_score =
                     ScoreAddShort(@, evaluator_with_fo.normal_count)]
        ELSE trie

RECURSIVE insert_project_specific_words(_, _)
insert_project_specific_words(trie, words) ==
    IF words = <<>> THEN trie
    ELSE LET ins == resolve_key_or_create(trie, Root, Head(words))
         IN  insert_project_specific_words(
                 [ins.trie EXCEPT ![ins.node].properties.absolute_score = ScoreAdd(@, 1)],
                 Tail(words))

\* std::string operator<: byte by byte, a proper prefix first
RECURSIVE StrLess(_, _)
StrLess(a, b) ==
    IF b = <<>> THEN FALSE
    ELSE IF a = <<>> THEN TRUE
    ELSE IF Head(a) # Head(b) THEN Head(a) < Head(b)
    ELSE StrLess(Tail(a), Tail(b))

\* The keys of parsed_data in the order std::map iterates them.
RECURSIVE SortedWords(_)
SortedWords(S) ==
    IF S = {} THEN <<>>
    ELSE LET w == CHOOSE x \in S : \A y \in S : y = x \/ StrLess(x, y)
         IN  <<w>> \o SortedWords(S \ {w})

ParsedWords(parsed) == {k[1] : k \in DOMAIN parsed}

\* ------------------------------------------------------------------------
\* Inputs of the preprocessor specification
\* ------------------------------------------------------------------------
MaxEntries == 2

OffensiveRule == [words |-> {}, tags |-> {"vulgar"}, categories |-> {"slurs"}]

\* Three filters whose excluded rule-sets grow: none; the regex "b."; the
\* regex, the tag "obsolete" and the category "rare".
ConfigFilters ==
    << [name |-> "root", excluded |-> EmptyRule, offensive |-> OffensiveRule],
       [name |-> "strict",
        excluded |-> [words |-> {<<98, 46>>}, tags |-> {}, categories |-> {}],
        offensive |-> OffensiveRule],
       [name |-> "stricter",
        excluded |-> [words |-> {<<98, 46>>}, tags |-> {"obsolete"}, categories |-> {"rare"}],
        offensive |-> OffensiveRule] >>

FilterNames == {"root", "strict", "stricter", "unknown"}

\* "a"; "e" listed twice; "f"
ProjectWordChoices == { << <<97>> >>, << <<101>>, <<101>> >>, << <<102>> >> }

Sense(tags, categories, form_of, alt_of) ==
    [tags |-> tags, categories |-> categories, form_of |-> form_of, alt_of |-> alt_of]

Entry(word, pos, senses) == [complete |-> TRUE, word |-> word, pos |-> pos, senses |-> senses]

\* The senses of the self-referring entry, and how many of them refer to the
\* entry itself: with the weights 1, 2 and 3 of the depths 0, 1 and 2 each
\* of its senses counts 1 + 2 * 13 + 3 * 13 * 13 = 534 times in the
\* form-of-aware evaluator.
LoopSenseCount == 62
LoopReferenceCount == 13

\* a (noun, plain); a (verb, one vulgar and one plain sense); bs (noun, category rare, alt_of a);
\* a (noun, form_of bs);
\* a1 (noun, plain); c (noun, the first senses form_of c, the first one obsolete);
\* d (noun, no senses); a line without senses.
Entries ==
    { Entry(<<97>>, "noun", << Sense({}, {}, <<>>, <<>>) >>),
      Entry(<<97>>, "verb", << Sense({"vulgar"}, {}, <<>>, <<>>), Sense({}, {}, <<>>, <<>>) >>),
      Entry(<<98, 115>>, "noun", << Sense({}, {"rare"}, <<>>, <<97>>) >>),
      Entry(<<97>>, "noun", << Sense({}, {}, <<98, 115>>, <<>>) >>),
      Entry(<<97, 49>>, "noun", << Sense({}, {}, <<>>, <<>>) >>),
      Entry(<<99>>, "noun",
            [i \in 1..LoopSenseCount |->
                Sense(IF i = 1 THEN {"obsolete"} ELSE {}, {},
                      IF i <= LoopReferenceCount THEN <<99>> ELSE <<>>, <<>>)]),
      Entry(<<100>>, "noun", <<>>),
      [complete |-> FALSE, word |-> <<103>>, pos |-> "noun", senses |-> <<>>] }

\* ------------------------------------------------------------------------
\* State
\* ------------------------------------------------------------------------
VARIABLES
    pc,            \* "init", "ready", "failed", "fault", "reloaded"
    dict,          \* the MutableDictionary: root trie and the three maxima
    ref,           \* the node whose properties the last insert returned
    load_outcome,  \* how the constructor ended
    loaded_file,   \* the file the constructor read
    inserted,      \* history: the unigram keys inserted so far
    disk,          \* the file at dst_path
    copy,          \* a second dictionary, read back from dst_path
    adjusted,      \* what adjustScoresIfNecessary returned: "none" before the call
    base_dictionaries,  \* DictionarySession::_base_dictionaries
    user_dictionary,    \* DictionarySession::_user_dictionary
    key_proximity_mapping,  \* DictionarySession::key_proximity_mapping, pairs <<actual, assumed>>
    session_pc,    \* "idle", "searching", "returned", "fault"
    call,          \* the last call of the session: operation, word, flags, exception
    pending,       \* the on_result calls the running search has yet to make
    results,       \* the results vector of spell / suggest
    dropped,       \* history: the candidates erased from results
    spelling,      \* the SpellingResult spell returned
    prep_pc,       \* wiktextract_preprocessor: "off", "reading", "inserting", "done"
    prep_config,   \* the filter name of the run and config.project_specific_words
    prep_lines,    \* history: the lines of the wiktextract file read so far
    parsed_data,   \* wiktextract_preprocessor::parsed_data, by <<word, pos>>
    prep_todo,     \* the words the insertion loop has yet to visit
    prep_dict,     \* the root trie of wiktextract_preprocessor::dict
    prep_stats,    \* total_words_excluded, total_words_offensive, total_words_normal
    prep_decision, \* history: the branch of the insertion loop each word took
    ngram_pc,      \* GoogleUnigramDatabase::load on the calling thread: "off", "enqueue", ...
    dir_entries,   \* the directory entries the loop of load has yet to visit
    guard,         \* the thread that holds the mutex guard, NoHolder if none
    task_queue,    \* the tasks pushed to the thread pool and not yet taken by a worker
    task_pc,       \* the position of every pushed task
    partitions,    \* the shared vector, each element with the holder of guard at its append
    seen_partitions,   \* the vector normalize_and_insert_partitions was handed
    database_writers   \* history: the threads that have written the database map

dictVars == <<pc, dict, ref, load_outcome, loaded_file, inserted, disk, copy, adjusted>>

sessionVars ==
    <<base_dictionaries, user_dictionary, key_proximity_mapping, session_pc, call, pending,
      results, dropped, spelling>>

prepVars ==
    <<prep_pc, prep_config, prep_lines, parsed_data, prep_todo, prep_dict, prep_stats,
      prep_decision>>

ngramVars ==
    <<ngram_pc, dir_entries, guard, task_queue, task_pc, partitions, seen_partitions,
      database_writers>>

vars == <<dictVars, sessionVars, prepVars, ngramVars>>

NoDictionary == DictOf(DeserializeStart)

\* thrown: the exception the call ended with, "none" without one.
NoCall == [op |-> "none", word |-> <<>>, flags |-> 0, thrown |-> "none"]

NoPrepConfig == [filter_name |-> "", project_specific_words |-> <<>>]

NoStats ==
    [total_words_excluded |-> 0, total_words_offensive |-> 0, total_words_normal |-> 0]

\* The preprocessor after construction, before load_config.
PrepFresh ==
    /\ prep_lines = <<>>
    /\ parsed_data = <<>>
    /\ prep_todo = <<>>
    /\ prep_dict = EmptyTrie
    /\ prep_stats = NoStats
    /\ prep_decision = <<>>

\* No preprocessor is run.
PrepOff ==
    /\ prep_pc = "off"
    /\ prep_config = NoPrepConfig
    /\ PrepFresh

\* The guard mutex is held by nobody; the calling thread of load.
NoHolder == -1
MainThread == 0

\* GoogleUnigramDatabase::load before its loop: nothing enqueued, nothing
\* loaded.
NgramFresh ==
    /\ guard = NoHolder
    /\ task_queue = <<>>
    /\ task_pc = <<>>
    /\ partitions = <<>>
    /\ seen_partitions = <<>>
    /\ database_writers = {}

\* No database is loaded.
NgramOff ==
    /\ ngram_pc = "off"
    /\ dir_entries = <<>>
    /\ NgramFresh

\* DictionarySession(): no base dictionary, no user dictionary.
SessionInit ==
    /\ base_dictionaries = <<>>
    /\ key_proximity_mapping = {}
    /\ user_dictionary = [loaded |-> FALSE, dict |-> NoDictionary]
    /\ session_pc = "idle"
    /\ call = NoCall
    /\ pending = <<>>
    /\ results = <<>>
    /\ dropped = {}
    /\ spelling = NoSpellingResult

RootTerminalKeys(d) == {LastKey(for_each(d.trie, Root)[i]) : i \in 1..Len(for_each(d.trie, Root))}

\* The file at src_path is there before the dictionary is constructed.
CoreInitWith(files) ==
    /\ pc = "init"
    /\ dict = NoDictionary
    /\ ref = NullNode
    /\ load_outcome = "none"
    /\ loaded_file \in files
    /\ inserted = {}
    /\ disk = NoFile
    /\ copy = [outcome |-> "none", dict |-> NoDictionary]
    /\ adjusted = "none"
    /\ SessionInit

DictInitWith(files) == CoreInitWith(files) /\ PrepOff /\ NgramOff

\* MutableDictionary(path)
Load ==
    /\ pc = "init"
    /\ LET made == DictionaryFromFile(loaded_file)
       IN  /\ load_outcome' = made.outcome
           /\ pc' = IF made.outcome = "ok" THEN "ready"
                    ELSE IF made.outcome = "null_dereference" THEN "fault"
                    ELSE "failed"
           /\ dict' = IF made.outcome = "ok" THEN made.dict ELSE dict
           /\ inserted' = IF made.outcome = "ok" THEN RootTerminalKeys(made.dict) ELSE inserted
    /\ UNCHANGED <<ref, loaded_file, disk, copy, adjusted, sessionVars, prepVars, ngramVars>>

\* MutableDictionary::insert(word1)
Insert1(word1) ==
    /\ pc = "ready"
    /\ LET ins == resolve_key_or_create(dict.trie, Root, word1)
       IN  /\ dict' = [dict EXCEPT !.trie = ins.trie]
           /\ ref' = ins.node
    /\ inserted' = inserted \cup {word1}
    /\ UNCHANGED <<pc, load_outcome, loaded_file, disk, copy, adjusted, sessionVars, prepVars, ngramVars>>

\* MutableDictionary::insert(word1, word2)
Insert2(word1, word2) ==
    /\ pc = "ready"
    /\ LET ins1 == resolve_key_or_create(dict.trie, Root, word1)
           sub1 == subsequent_words_or_create(ins1.trie, ins1.node)
       IN  IF sub1.node = NullNode
           THEN /\ dict' = [dict EXCEPT !.trie = sub1.trie]
                /\ pc' = "fault"
           ELSE /\ dict' = [dict EXCEPT !.trie =
                                resolve_key_or_create(sub1.trie, sub1.node, word2).trie]
                /\ pc' = pc
    /\ inserted' = inserted \cup {word1}
    /\ ref' = NullNode
    /\ UNCHANGED <<load_outcome, loaded_file, disk, copy, adjusted, sessionVars, prepVars, ngramVars>>

\* MutableDictionary::insert(word1, word2, word3)
Insert3(word1, word2, word3) ==
    /\ pc = "ready"
    /\ LET ins1 == resolve_key_or_create(dict.trie, Root, word1)
           sub1 == subsequent_words_or_create(ins1.trie, ins1.node)
       IN  IF sub1.node = NullNode
           THEN /\ dict' = [dict EXCEPT !.trie = sub1.trie]
                /\ pc' = "fault"
           ELSE LET ins2 == resolve_key_or_create(sub1.trie, sub1.node, word2)
                    sub2 == subsequent_words_or_create(ins2.trie, ins2.node)
                IN  IF sub2.node = NullNode
                    THEN /\ dict' = [dict EXCEPT !.trie = sub2.trie]
                         /\ pc' = "fault"
                    ELSE /\ dict' = [dict EXCEPT !.trie =
                                        resolve_key_or_create(sub2.trie, sub2.node, word3).trie]
                         /\ pc' = pc
    /\ inserted' = inserted \cup {word1}
    /\ ref' = NullNode
    /\ UNCHANGED <<load_outcome, loaded_file, disk, copy, adjusted, sessionVars, prepVars, ngramVars>>

\* properties.absolute_score += n, through the reference insert returned
IncrementScore(n) ==
    /\ pc = "ready"
    /\ ref # NullNode
    /\ dict.trie[ref].properties.absolute_score + n <= MaxScore
    /\ dict' = [dict EXCEPT !.trie[ref].properties.absolute_score = ScoreAdd(@, n)]
    /\ UNCHANGED <<pc, ref, load_outcome, loaded_file, inserted, disk, copy, adjusted, sessionVars, prepVars, ngramVars>>

\* properties.is_possibly_offensive = true, through the same reference
MarkOffensive ==
    /\ pc = "ready"
    /\ ref # NullNode
    /\ dict' = [dict EXCEPT !.trie[ref].properties.is_possibly_offensive = TRUE]
    /\ UNCHANGED <<pc, ref, load_outcome, loaded_file, inserted, disk, copy, adjusted, sessionVars, prepVars, ngramVars>>

\* persist() to dst_path, then Dictionary(dst_path)
PersistAndReload ==
    /\ pc = "ready"
    /\ disk' = FileOf(serialize(dict))
    /\ copy' = DictionaryFromFile(disk')
    /\ pc' = "reloaded"
    /\ UNCHANGED <<dict, ref, load_outcome, loaded_file, inserted, adjusted, sessionVars, prepVars, ngramVars>>

\* MutableDictionary::adjustScoresIfNecessary(): the traversal is commented
\* out; what is left returns true.
AdjustScoresIfNecessary ==
    /\ pc = "ready"
    /\ adjusted = "none"
    /\ adjusted' = "true"
    /\ UNCHANGED <<pc, dict, ref, load_outcome, loaded_file, inserted, disk, copy,
                   sessionVars, prepVars, ngramVars>>

DictNext ==
    \/ Load
    \/ \E w1 \in Words : Insert1(w1)
    \/ \E w1, w2 \in Words : Insert2(w1, w2)
    \/ \E w1, w2, w3 \in Words : Insert3(w1, w2, w3)
    \/ \E n \in Increments : IncrementScore(n)
    \/ MarkOffensive
    \/ AdjustScoresIfNecessary
    \/ PersistAndReload

Init == DictInitWith(StartFiles)

Next == DictNext

Spec == Init /\ [][Next]_vars

\* Reading one file: every file of DictFiles, taken through the constructor.
LoadInit == DictInitWith(DictFiles)

LoadNext == Load

SpecLoad == LoadInit /\ [][LoadNext]_vars

\* ------------------------------------------------------------------------
\* DictionarySession
\* ------------------------------------------------------------------------
\* The exception a constructor outcome reaches the caller of a load with.
Thrown(outcome) == IF outcome \in {"ok", "null_dereference"} THEN "none" ELSE outcome

LoadCall(op, outcome) == [op |-> op, word |-> <<>>, flags |-> 0, thrown |-> Thrown(outcome)]

\* loadBaseDictionary with the push_back moved before the constructor's end:
\* what was read up to the exception is appended.
LoadBaseDictionaryKeepingPartial(file) ==
    /\ session_pc = "idle"
    /\ Len(base_dictionaries) < MaxBase
    /\ LET made == DictionaryFromFile(file)
       IN  /\ base_dictionaries' = Append(base_dictionaries, made.dict)
           /\ session_pc' = IF made.outcome = "null_dereference" THEN "fault" ELSE session_pc
           /\ call' = LoadCall("loadBaseDictionary", made.outcome)
    /\ UNCHANGED <<key_proximity_mapping, user_dictionary, pending, results, dropped, spelling, dictVars, prepVars, ngramVars>>

\* loadBaseDictionary(dict_path): an exception of the constructor leaves the
\* list as it was.
LoadBaseDictionary(file) ==
    /\ session_pc = "idle"
    /\ Len(base_dictionaries) < MaxBase
    /\ LET made == DictionaryFromFile(file)
       IN  /\ base_dictionaries' =
                  IF made.outcome = "ok" THEN Append(base_dictionaries, made.dict)
                  ELSE base_dictionaries
           /\ session_pc' = IF made.outcome = "null_dereference" THEN "fault" ELSE session_pc
           /\ call' = LoadCall("loadBaseDictionary", made.outcome)
    /\ UNCHANGED <<key_proximity_mapping, user_dictionary, pending, results, dropped, spelling, dictVars, prepVars, ngramVars>>

\* loadUserDictionary(dict_path)
LoadUserDictionary(file) ==
    /\ session_pc = "idle"
    /\ LET made == DictionaryFromFile(file)
       IN  /\ user_dictionary' =
                  IF made.outcome = "ok" THEN [loaded |-> TRUE, dict |-> made.dict]
                  ELSE user_dictionary
           /\ session_pc' = IF made.outcome = "null_dereference" THEN "fault" ELSE session_pc
           /\ call' = LoadCall("loadUserDictionary", made.outcome)
    /\ UNCHANGED <<key_proximity_mapping, base_dictionaries, pending, results, dropped, spelling, dictVars, prepVars, ngramVars>>

\* key_proximity_mapping.load_from_file(path): the map is cleared and filled
\* from the file.
LoadKeyProximityMap(data) ==
    /\ session_pc = "idle"
    /\ key_proximity_mapping' = data
    /\ UNCHANGED <<base_dictionaries, user_dictionary, session_pc, call, pending, results,
                   dropped, spelling, dictVars, prepVars, ngramVars>>

\* spell reading _base_dictionaries.back() where the code reads
\* _base_dictionaries[0].
SpellFromLastDictionary(word, flags) ==
    /\ session_pc = "idle"
    /\ call' = [op |-> "spell", word |-> word, flags |-> flags, thrown |-> "none"]
    /\ results' = <<>>
    /\ dropped' = {}
    /\ IF word = <<>>
       THEN /\ spelling' = unspecified
            /\ pending' = <<>>
            /\ session_pc' = "returned"
       ELSE IF base_dictionaries = <<>>
       THEN /\ session_pc' = "fault"
            /\ UNCHANGED <<pending, spelling>>
       ELSE IF IsValidWord(base_dictionaries[Len(base_dictionaries)].trie, word)
       THEN /\ spelling' = validWord
            /\ pending' = <<>>
            /\ session_pc' = "returned"
       ELSE /\ pending' \in fuzzySearch(base_dictionaries[Len(base_dictionaries)].trie, Root, "ProximityWithoutSelf",
                                        MAX_COST, flags, word)
            /\ session_pc' = "searching"
            /\ UNCHANGED spelling
    /\ UNCHANGED <<key_proximity_mapping, base_dictionaries, user_dictionary, dictVars, prepVars, ngramVars>>

\* spell(word, prev_words, next_words, flags), up to the first on_result call
\* or, when the search is not entered, to the return. _base_dictionaries[0] of
\* an empty vector is out of bounds.
Spell(word, flags) ==
    /\ session_pc = "idle"
    /\ call' = [op |-> "spell", word |-> word, flags |-> flags, thrown |-> "none"]
    /\ results' = <<>>
    /\ dropped' = {}
    /\ IF word = <<>>
       THEN /\ spelling' = unspecified
            /\ pending' = <<>>
            /\ session_pc' = "returned"
       ELSE IF base_dictionaries = <<>>
       THEN /\ session_pc' = "fault"
            /\ UNCHANGED <<pending, spelling>>
       ELSE IF IsValidWord(base_dictionaries[1].trie, word)
       THEN /\ spelling' = validWord
            /\ pending' = <<>>
            /\ session_pc' = "returned"
       ELSE /\ pending' \in fuzzySearch(base_dictionaries[1].trie, Root, "ProximityWithoutSelf",
                                        MAX_COST, flags, word)
            /\ session_pc' = "searching"
            /\ UNCHANGED spelling
    /\ UNCHANGED <<key_proximity_mapping, base_dictionaries, user_dictionary, dictVars, prepVars, ngramVars>>

\* suggest(word, prev_words, flags, results), up to the first on_result call
\* or, for an empty word, to the return.
Suggest(word, flags) ==
    /\ \/ session_pc = "idle"
       \/ session_pc = "returned" /\ call.op = "suggest" /\ results # <<>>
    /\ call' = [op |-> "suggest", word |-> word, flags |-> flags, thrown |-> "none"]
    /\ results' = <<>>
    /\ dropped' = {}
    /\ IF word = <<>>
       THEN /\ pending' = <<>>
            /\ session_pc' = "returned"
       ELSE IF base_dictionaries = <<>>
       THEN /\ session_pc' = "fault"
            /\ UNCHANGED pending
       ELSE /\ pending' \in fuzzySearch(base_dictionaries[1].trie, Root, "ProximityOrPrefix",
                                        MAX_COST, flags, word)
            /\ session_pc' = "searching"
    /\ UNCHANGED <<key_proximity_mapping, base_dictionaries, user_dictionary, spelling, dictVars, prepVars, ngramVars>>

\* One call of the on_result lambda of spell / suggest: push, sort, cap.
OnResult ==
    /\ session_pc = "searching"
    /\ pending # <<>>
    /\ LET found == Head(pending)
           pushed == Append(results, MakeCandidate(found.text, found.node, found.cost))
       IN  \E sorted \in sort(pushed) :
               /\ results' = EraseOverflow(sorted, call.flags)
               /\ dropped' = dropped \cup
                      ({sorted[i] : i \in DOMAIN sorted} \
                       {results'[i] : i \in DOMAIN results'})
    /\ pending' = Tail(pending)
    /\ UNCHANGED <<key_proximity_mapping, base_dictionaries, user_dictionary, session_pc, call, spelling, dictVars, prepVars, ngramVars>>

\* The search is over: spell copies the texts into a typo result, suggest
\* leaves results to the caller.
Return ==
    /\ session_pc = "searching"
    /\ pending = <<>>
    /\ spelling' = IF call.op = "spell"
                   THEN typo([i \in DOMAIN results |-> results[i].text], FALSE)
                   ELSE spelling
    /\ session_pc' = "returned"
    /\ UNCHANGED <<key_proximity_mapping, base_dictionaries, user_dictionary, call, pending, results, dropped, dictVars, prepVars, ngramVars>>

SessionNext ==
    \/ \E data \in ProximityMaps : LoadKeyProximityMap(data)
    \/ \E file \in SessionFiles : LoadBaseDictionary(file)
    \/ \E file \in UserFiles : LoadUserDictionary(file)
    \/ \E word \in QueryWords, flags \in QueryFlags : Spell(word, flags)
    \/ \E word \in QueryWords, flags \in QueryFlags : Suggest(word, flags)
    \/ OnResult
    \/ Return

\* A session of its own: the dictionary of the first specification stays
\* unconstructed.
SessionSpecInit == DictInitWith({NoFile})

SpecSession == SessionSpecInit /\ [][SessionNext]_vars

\* ------------------------------------------------------------------------
\* wiktextract_preprocessor::read_wiktextract_data_into_dictionary
\* ------------------------------------------------------------------------
PrepFilter == get_filter(ConfigFilters, prep_config.filter_name)

\* One pass of the getline loop.
ReadEntry(entry) ==
    /\ prep_pc = "reading"
    /\ Len(prep_lines) < MaxEntries
    /\ parsed_data' = ReadLine(parsed_data, PrepFilter, entry)
    /\ prep_lines' = Append(prep_lines, entry)
    /\ UNCHANGED <<prep_pc, prep_config, prep_todo, prep_dict, prep_stats, prep_decision,
                   dictVars, sessionVars, ngramVars>>

\* getline fails: the insertion loop starts at parsed_data.cbegin().
EndOfFile ==
    /\ prep_pc = "reading"
    /\ prep_pc' = "inserting"
    /\ prep_todo' = SortedWords(ParsedWords(parsed_data))
    /\ UNCHANGED <<prep_config, prep_lines, parsed_data, prep_dict, prep_stats, prep_decision,
                   dictVars, sessionVars, ngramVars>>

\* One pass of the insertion loop.
EvaluateWord ==
    /\ prep_pc = "inserting"
    /\ prep_todo # <<>>
    /\ LET word == Head(prep_todo)
           branch == InsertionBranch(parsed_data, word)
       IN  /\ prep_dict' = InsertEvaluated(prep_dict, parsed_data, word, branch)
           /\ prep_stats' =
                  IF branch = "excluded"
                  THEN [prep_stats EXCEPT !.total_words_excluded = @ + 1]
                  ELSE IF branch = "offensive"
                  THEN [prep_stats EXCEPT !.total_words_offensive = @ + 1]
                  ELSE [prep_stats EXCEPT !.total_words_normal = @ + 1]
           /\ prep_decision' = prep_decision @@ (word :> branch)
    /\ prep_todo' = Tail(prep_todo)
    /\ UNCHANGED <<prep_pc, prep_config, prep_lines, parsed_data, dictVars, sessionVars, ngramVars>>

\* The loop is over: insert_project_specific_words().
InsertProjectSpecificWords ==
    /\ prep_pc = "inserting"
    /\ prep_todo = <<>>
    /\ prep_dict' = insert_project_specific_words(prep_dict, prep_config.project_specific_words)
    /\ prep_pc' = "done"
    /\ UNCHANGED <<prep_config, prep_lines, parsed_data, prep_todo, prep_stats, prep_decision,
                   dictVars, sessionVars, ngramVars>>

PrepNext ==
    \/ \E entry \in Entries : ReadEntry(entry)
    \/ EndOfFile
    \/ EvaluateWord
    \/ InsertProjectSpecificWords

\* A run of the preprocessor: load_config has read the filters and the
\* project-specific words, the filter is chosen by name.
PrepSpecInit ==
    /\ CoreInitWith({NoFile})
    /\ prep_pc = "reading"
    /\ prep_config \in [filter_name : FilterNames, project_specific_words : ProjectWordChoices]
    /\ PrepFresh
    /\ NgramOff

SpecPrep == PrepSpecInit /\ [][PrepNext]_vars

\* ------------------------------------------------------------------------
\* std::sort(results.begin(), results.end(), suggestions_sorter)
\* ------------------------------------------------------------------------
\* Edit distances and confidences (in thousandths) of the candidates compared.
SortDistances == {1, 2}
SortConfidences == {0, 500, 900, CONFIDENCE_ONE}

SortCandidates ==
    [text : {<<97>>}, secondary_text : {<<>>},
     edit_distance : SortDistances, confidence : SortConfidences]

\* The vectors handed to std::sort.
SortVectors == [1..3 -> SortCandidates]

\* Compare: irreflexive, asymmetric, transitive, and with a transitive
\* incomparability, on the elements of r.
IsStrictWeakOrderOn(r) ==
    LET lt(i, j) == suggestions_sorter(r[i], r[j])
        eq(i, j) == ~lt(i, j) /\ ~lt(j, i)
    IN  \A i, j, k \in DOMAIN r :
            /\ ~lt(i, i)
            /\ lt(i, j) => ~lt(j, i)
            /\ (lt(i, j) /\ lt(j, k)) => lt(i, k)
            /\ (eq(i, j) /\ eq(j, k)) => eq(i, k)

\* std::sort with a comparator that is no strict weak ordering on the range
\* has undefined behaviour: the elements may be left in any order.
StdSort(r) ==
    IF IsStrictWeakOrderOn(r) THEN sort(r)
    ELSE {[i \in DOMAIN r |-> r[q[i]]] : q \in Permutations(DOMAIN r)}

SortResults ==
    /\ session_pc = "sorting"
    /\ results' \in StdSort(results)
    /\ session_pc' = "sorted"
    /\ UNCHANGED <<key_proximity_mapping, base_dictionaries, user_dictionary, call, pending,
                   dropped, spelling, dictVars, prepVars, ngramVars>>

SortInit ==
    /\ pc = "init"
    /\ dict = NoDictionary
    /\ ref = NullNode
    /\ load_outcome = "none"
    /\ loaded_file = NoFile
    /\ inserted = {}
    /\ disk = NoFile
    /\ copy = [outcome |-> "none", dict |-> NoDictionary]
    /\ adjusted = "none"
    /\ base_dictionaries = <<>>
    /\ key_proximity_mapping = {}
    /\ user_dictionary = [loaded |-> FALSE, dict |-> NoDictionary]
    /\ session_pc = "sorting"
    /\ call = NoCall
    /\ pending = <<>>
    /\ results \in SortVectors
    /\ dropped = {}
    /\ spelling = NoSpellingResult
    /\ PrepOff
    /\ NgramOff

SortNext == SortResults

SpecSort == SortInit /\ [][SortNext]_vars

\* ------------------------------------------------------------------------
\* GoogleUnigramDatabase::load
\* ------------------------------------------------------------------------
\* The entries of the directory: partition files, and entries the loop passes
\* over (directories, the total counts file, log files).
MaxDirEntries == 3

DirectoryListings == SeqsUpTo({"partition", "other"}, MaxDirEntries)

\* BS::thread_pool thread_pool(4)
POOL_THREADS == 4

\* A mutex that lets every caller through.
LockWithoutWaiting(holder) == TRUE

\* guard.lock() returns when no thread holds the mutex.
CanLock(holder) == holder = NoHolder

Tasks == DOMAIN task_pc

RunningTasks == {t \in Tasks : task_pc[t] \notin {"queued", "finished"}}

LoadRuns == ngram_pc \notin {"off", "terminated"}

\* A directory entry that is no partition file: continue.
SkipEntry ==
    /\ ngram_pc = "enqueue"
    /\ dir_entries # <<>>
    /\ Head(dir_entries) = "other"
    /\ dir_entries' = Tail(dir_entries)
    /\ UNCHANGED <<ngram_pc, guard, task_queue, task_pc, partitions, seen_partitions,
                   database_writers, dictVars, sessionVars, prepVars>>

\* guard.lock() of the calling thread before it prints "Enqueue partition".
EnqueueLock ==
    /\ ngram_pc = "enqueue"
    /\ dir_entries # <<>>
    /\ Head(dir_entries) = "partition"
    /\ CanLock(guard)
    /\ guard' = MainThread
    /\ ngram_pc' = "announce"
    /\ UNCHANGED <<dir_entries, task_queue, task_pc, partitions, seen_partitions,
                   database_writers, dictVars, sessionVars, prepVars>>

\* guard.unlock() of the calling thread.
EnqueueUnlock ==
    /\ ngram_pc = "announce"
    /\ guard' = NoHolder
    /\ ngram_pc' = "push"
    /\ UNCHANGED <<dir_entries, task_queue, task_pc, partitions, seen_partitions,
                   database_writers, dictVars, sessionVars, prepVars>>

\* thread_pool.push_task(...): the task is numbered by its place among the
\* pushed tasks.
PushTask ==
    /\ ngram_pc = "push"
    /\ LET t == Cardinality(Tasks) + 1
       IN  /\ task_pc' = task_pc @@ (t :> "queued")
           /\ task_queue' = Append(task_queue, t)
    /\ dir_entries' = Tail(dir_entries)
    /\ ngram_pc' = "enqueue"
    /\ UNCHANGED <<guard, partitions, seen_partitions, database_writers,
                   dictVars, sessionVars, prepVars>>

\* A free worker of the pool takes the task at the head of the queue.
PopTask ==
    /\ LoadRuns
    /\ task_queue # <<>>
    /\ Cardinality(RunningTasks) < POOL_THREADS
    /\ task_pc' = [task_pc EXCEPT ![Head(task_queue)] = "popped"]
    /\ task_queue' = Tail(task_queue)
    /\ UNCHANGED <<ngram_pc, dir_entries, guard, partitions, seen_partitions, database_writers,
                   dictVars, sessionVars, prepVars>>

\* guard.lock() of a task: before "Start loading partition" and before
\* partitions.emplace_back.
TaskLock(t) ==
    /\ LoadRuns
    /\ task_pc[t] \in {"popped", "loaded"}
    /\ CanLock(guard)
    /\ guard' = t
    /\ task_pc' = [task_pc EXCEPT ![t] = IF @ = "popped" THEN "starting" ELSE "locked"]
    /\ UNCHANGED <<ngram_pc, dir_entries, task_queue, partitions, seen_partitions,
                   database_writers, dictVars, sessionVars, prepVars>>

\* guard.unlock() of a task: after the first print and at the end.
TaskUnlock(t) ==
    /\ LoadRuns
    /\ task_pc[t] \in {"starting", "emplaced"}
    /\ guard' = NoHolder
    /\ task_pc' = [task_pc EXCEPT ![t] = IF @ = "starting" THEN "loading" ELSE "finished"]
    /\ UNCHANGED <<ngram_pc, dir_entries, task_queue, partitions, seen_partitions,
                   database_writers, dictVars, sessionVars, prepVars>>

\* load_partition(partition_path): it reads total_counts and the partition
\* file and writes its own log file; an exception it throws leaves the task
\* on a worker thread, which ends the process.
LoadPartition(t, ok) ==
    /\ LoadRuns
    /\ task_pc[t] = "loading"
    /\ IF ok
       THEN /\ task_pc' = [task_pc EXCEPT ![t] = "loaded"]
            /\ UNCHANGED ngram_pc
       ELSE /\ ngram_pc' = "terminated"
            /\ UNCHANGED task_pc
    /\ UNCHANGED <<dir_entries, guard, task_queue, partitions, seen_partitions,
                   database_writers, dictVars, sessionVars, prepVars>>

\* partitions.emplace_back(partition)
EmplaceBack(t) ==
    /\ LoadRuns
    /\ task_pc[t] = "locked"
    /\ partitions' = Append(partitions, [name |-> t, holder |-> guard])
    /\ task_pc' = [task_pc EXCEPT ![t] = "emplaced"]
    /\ UNCHANGED <<ngram_pc, dir_entries, guard, task_queue, seen_partitions,
                   database_writers, dictVars, sessionVars, prepVars>>

\* thread_pool.wait_for_tasks() returns: no task is queued or running.
WaitForTasks ==
    /\ ngram_pc = "enqueue"
    /\ dir_entries = <<>>
    /\ task_queue = <<>>
    /\ RunningTasks = {}
    /\ ngram_pc' = "open_log"
    /\ UNCHANGED <<dir_entries, guard, task_queue, task_pc, partitions, seen_partitions,
                   database_writers, dictVars, sessionVars, prepVars>>

\* db_insert.log is opened, or load throws.
OpenInsertLog(ok) ==
    /\ ngram_pc = "open_log"
    /\ ngram_pc' = IF ok THEN "normalize" ELSE "failed"
    /\ UNCHANGED <<dir_entries, guard, task_queue, task_pc, partitions, seen_partitions,
                   database_writers, dictVars, sessionVars, prepVars>>

\* normalize_and_insert_partitions(partitions, db_insert_log), on the
\* calling thread.
NormalizeAndInsertPartitions ==
    /\ ngram_pc = "normalize"
    /\ seen_partitions' = [i \in DOMAIN partitions |-> partitions[i].name]
    /\ database_writers' = database_writers \cup {MainThread}
    /\ ngram_pc' = "done"
    /\ UNCHANGED <<dir_entries, guard, task_queue, task_pc, partitions,
                   dictVars, sessionVars, prepVars>>

NgramNext ==
    \/ SkipEntry
    \/ EnqueueLock
    \/ EnqueueUnlock
    \/ PushTask
    \/ PopTask
    \/ \E t \in Tasks : TaskLock(t)
    \/ \E t \in Tasks : TaskUnlock(t)
    \/ \E t \in Tasks, ok \in BOOLEAN : LoadPartition(t, ok)
    \/ \E t \in Tasks : EmplaceBack(t)
    \/ WaitForTasks
    \/ \E ok \in BOOLEAN : OpenInsertLog(ok)
    \/ NormalizeAndInsertPartitions

\* load(path) after total_counts.load: the directory holds its entries.
NgramInit ==
    /\ CoreInitWith({NoFile})
    /\ PrepOff
    /\ ngram_pc = "enqueue"
    /\ dir_entries \in DirectoryListings
    /\ NgramFresh

SpecNgram == NgramInit /\ [][NgramNext]_vars

\* ------------------------------------------------------------------------
\* Claims about the dictionary
\* ------------------------------------------------------------------------
Terminals(t) == {n \in DOMAIN t : t[n].is_terminal}

\* The terminals of a trie with their n-gram path and their properties.
TerminalView(t) == [n \in Terminals(t) |-> t[n].properties]

MaxScoreOfLevel(d, level) ==
    IF level = 1 THEN d.max_unigram_score
    ELSE IF level = 2 THEN d.max_bigram_score
    ELSE d.max_trigram_score

\* C1: reading back the text written for a dictionary that was built by
\* inserts gives a dictionary with the same terminals at every level (same
\* parents, same score and flags) and the same three maximum scores.
C1_RoundTrip ==
    pc = "reloaded" =>
        /\ copy.outcome = "ok"
        /\ TerminalView(copy.dict.trie) = TerminalView(dict.trie)
        /\ copy.dict.max_unigram_score = dict.max_unigram_score
        /\ copy.dict.max_bigram_score = dict.max_bigram_score
        /\ copy.dict.max_trigram_score = dict.max_trigram_score

ProbeKeys == Words \cup {<<98, 97>>}

\* C2: resolve(key) returns a node exactly for the keys that were inserted,
\* and contains(key) is true exactly for them; a key that is only a proper
\* prefix of an inserted word resolves to none.
C2_ResolveIffInserted ==
    pc = "ready" =>
        \A key \in ProbeKeys :
            /\ (resolve_key_or_null(dict.trie, Root, key) # NullNode) <=> (key \in inserted)
            /\ contains(dict, key) <=> (key \in inserted)

\* C3: the maximum score kept for an n-gram level is at least the
\* absolute_score of every terminal of that level.
C3_ScoreMonotonicity ==
    pc = "ready" =>
        \A n \in Terminals(dict.trie) :
            Len(n) <= 3 =>
                ~ScoreLess(MaxScoreOfLevel(dict, Len(n)), dict.trie[n].properties.absolute_score)

IsSectionLine(line) == line # <<>> /\ Head(line) = SECTION_MARK

LineLevel(line) == LeadingSeparators(line) + 1

LineFields(line) == split(SubSeq(line, LineLevel(line), Len(line)), FLDIC_SEPARATOR)

\* A line "TAB^(L-1) word TAB score [TAB flags]" with a word and a decimal score.
IsWordLine(line) ==
    /\ ~IsSectionLine(line)
    /\ Len(LineFields(line)) >= 2
    /\ trim(LineFields(line)[1]) # <<>>
    /\ stoi(trim(LineFields(line)[2])).error = "none"

WordLinesBefore(lines, i) == {j \in 1..(i - 1) : IsWordLine(lines[j])}

\* Line i is a word line that the format forbids where it stands: deeper than
\* level 8, more than one level below the word line before it, or of a level
\* L >= 2 with no word of level L-1 read before it.
ForbiddenLevelAt(lines, i) ==
    /\ IsWordLine(lines[i])
    /\ \/ LineLevel(lines[i]) > 8
       \/ /\ WordLinesBefore(lines, i) # {}
          /\ LET last == CHOOSE j \in WordLinesBefore(lines, i) :
                             \A k \in WordLinesBefore(lines, i) : k <= j
             IN  LineLevel(lines[i]) - LineLevel(lines[last]) > 1
       \/ /\ LineLevel(lines[i]) >= 2
          /\ \A j \in WordLinesBefore(lines, i) :
                 LineLevel(lines[j]) # LineLevel(lines[i]) - 1

\* The first forbidden line is preceded by section headers and well-formed,
\* permitted word lines only.
ReachesForbiddenLevel(lines) ==
    \E i \in 1..Len(lines) :
        /\ ForbiddenLevelAt(lines, i)
        /\ \A j \in 1..(i - 1) :
               /\ IsSectionLine(lines[j]) \/ IsWordLine(lines[j])
               /\ ~ForbiddenLevelAt(lines, j)

\* The lines after the header.
BodyLines(file) == readFrom(DefaultHeader, file.lines).rest

\* C10: a load that meets a word line of a forbidden level in the body ends
\* with a DictionarySerializationError.
C10_ForbiddenLevelIsFatal ==
    (pc # "init" /\ loaded_file.exists /\ ReachesForbiddenLevel(BodyLines(loaded_file))) =>
        load_outcome = "DictionarySerializationError"

\* ------------------------------------------------------------------------
\* Claims about the session
\* ------------------------------------------------------------------------
\* The unigram terminals of base dictionary 0, by their word.
PrimaryWords ==
    IF base_dictionaries = <<>> THEN {}
    ELSE {LastKey(n) : n \in {m \in Terminals(base_dictionaries[1].trie) : Len(m) = 1}}

PrimaryProperties(word) == base_dictionaries[1].trie[<<word>>].properties

Candidates(r) == {r[i] : i \in DOMAIN r}

AfterCallbacks == session_pc \in {"searching", "returned"} /\ call.word # <<>>

\* distances[p][W] for the stored word key against the query word, p = Len(key)
RECURSIVE StateAlong(_, _, _)
StateAlong(state, prefix_index, key) ==
    IF key = <<>> THEN state
    ELSE StateAlong(setPrefixChstrAt(state, prefix_index + 1, Head(key)),
                    prefix_index + 1, Tail(key))

PathCost(word, key) ==
    editDistanceAt(StateAlong(FuzzySearchState("Proximity", MAX_COST, 0, word), 0, key),
                   Len(key))

\* C4: spell returns UNSPECIFIED without suggestions exactly for the empty
\* word, IN_THE_DICTIONARY alone and without suggestions exactly for a
\* non-empty word that is a terminal of base dictionary 0 (whatever its
\* flags), and LOOKS_LIKE_TYPO without IN_THE_DICTIONARY in every other case.
\* (A non-empty word on a session without base dictionary 0 does not return.)
C4_SpellAttributes ==
    (session_pc = "returned" /\ call.op = "spell") =>
        /\ (spelling.suggestion_attributes = RESULT_UNSPECIFIED /\ spelling.suggestions = <<>>)
               <=> (call.word = <<>>)
        /\ (/\ spelling.suggestion_attributes = RESULT_ATTR_IN_THE_DICTIONARY
            /\ spelling.suggestions = <<>>)
               <=> (call.word # <<>> /\ call.word \in PrimaryWords)
        /\ (call.word # <<>> /\ call.word \notin PrimaryWords)
               => spelling.suggestion_attributes = RESULT_ATTR_LOOKS_LIKE_TYPO

\* spell has returned for a word that is only a prefix of stored words
C4_Witness ==
    /\ session_pc = "returned"
    /\ call.op = "spell"
    /\ call.word # <<>>
    /\ resolve_key_or_null(base_dictionaries[1].trie, Root, call.word) # NullNode
    /\ call.word \notin PrimaryWords
    /\ spelling.suggestion_attributes = RESULT_ATTR_LOOKS_LIKE_TYPO

\* The words the running search has reported or will report.
EmittedWords ==
    {pending[i].text : i \in DOMAIN pending}
    \cup {c.text : c \in Candidates(results)}
    \cup {c.text : c \in dropped}

\* C5: the search reports every non-empty terminal of base dictionary 0 that
\* is not hidden, is not filtered as offensive, and whose cost against the
\* whole query is at most MAX_COST.
C5_SearchComplete ==
    session_pc = "searching" =>
        \A word \in PrimaryWords :
            (/\ word # <<>>
             /\ ~PrimaryProperties(word).is_hidden_by_user
             /\ ~(PrimaryProperties(word).is_possibly_offensive
                  /\ ~allowPossiblyOffensive(call.flags))
             /\ PathCost(call.word, word) <= MAX_COST)
                => word \in EmittedWords

\* C6: no candidate comes from a hidden terminal, none from a possibly
\* offensive one unless the flags allow it, and every reported word is
\* non-empty with an edit distance of at most MAX_COST.
C6_NoFilteredCandidates ==
    AfterCallbacks =>
        /\ \A c \in Candidates(results) \cup dropped :
               /\ c.text # <<>>
               /\ c.edit_distance <= MAX_COST
               /\ c.text \in PrimaryWords
               /\ ~PrimaryProperties(c.text).is_hidden_by_user
               /\ PrimaryProperties(c.text).is_possibly_offensive
                      => allowPossiblyOffensive(call.flags)
        /\ \A i \in DOMAIN pending :
               /\ pending[i].text # <<>>
               /\ pending[i].cost <= MAX_COST
               /\ ~PrimaryProperties(pending[i].text).is_hidden_by_user
               /\ PrimaryProperties(pending[i].text).is_possibly_offensive
                      => allowPossiblyOffensive(call.flags)
        /\ (session_pc = "returned" /\ call.op = "spell") =>
               \A i \in DOMAIN spelling.suggestions :
                   /\ spelling.suggestions[i] \in PrimaryWords
                   /\ ~PrimaryProperties(spelling.suggestions[i]).is_hidden_by_user
                   /\ PrimaryProperties(spelling.suggestions[i]).is_possibly_offensive
                          => allowPossiblyOffensive(call.flags)

\* candidates were returned although a hidden and a filtered offensive word
\* are within MAX_COST of the query
C6_Witness ==
    /\ session_pc = "returned"
    /\ results # <<>>
    /\ ~allowPossiblyOffensive(call.flags)
    /\ \E word \in PrimaryWords :
           PrimaryProperties(word).is_hidden_by_user /\ PathCost(call.word, word) <= MAX_COST
    /\ \E word \in PrimaryWords :
           /\ PrimaryProperties(word).is_possibly_offensive
           /\ PathCost(call.word, word) <= MAX_COST

\* C7: after every callback and at return the result list is in
\* non-decreasing edit_distance, equal distances in non-increasing confidence;
\* the suggestions of spell are the texts in that order.
C7_ResultsOrdered ==
    AfterCallbacks =>
        /\ \A i, j \in DOMAIN results :
               i < j =>
                   /\ results[i].edit_distance <= results[j].edit_distance
                   /\ results[i].edit_distance = results[j].edit_distance
                          => results[i].confidence >= results[j].confidence
        /\ (session_pc = "returned" /\ call.op = "spell"
                /\ spelling.suggestion_attributes = RESULT_ATTR_LOOKS_LIKE_TYPO)
               => spelling.suggestions = [i \in DOMAIN results |-> results[i].text]

\* a callback has left two candidates of different distance in the list
C7_Witness ==
    /\ session_pc = "searching"
    /\ Len(results) >= 2
    /\ results[1].edit_distance < results[Len(results)].edit_distance

\* C8: after every callback and at return the list holds at most
\* max_suggestion_count entries, and no candidate that was dropped has a
\* strictly smaller edit_distance than one that is kept.
C8_ResultCap ==
    AfterCallbacks =>
        /\ Len(results) <= maxSuggestionCount(call.flags)
        /\ \A d \in dropped : \A c \in Candidates(results) :
               ~(d.edit_distance < c.edit_distance)
        /\ (session_pc = "returned" /\ call.op = "spell") =>
               Len(spelling.suggestions) <= maxSuggestionCount(call.flags)

\* a full list was returned after a candidate had been dropped
C8_Witness ==
    /\ session_pc = "returned"
    /\ dropped # {}
    /\ results # <<>>
    /\ Len(results) = maxSuggestionCount(call.flags)

\* absolute_score / max_unigram_score in thousandths, clamped into [0, 0.9]
NormalisedConfidence(score, max_unigram_score) ==
    IF max_unigram_score = 0 THEN SUGGESTION_CANDIDATE_MAX_CONFIDENCE
    ELSE Min(SUGGESTION_CANDIDATE_MAX_CONFIDENCE,
             (score * CONFIDENCE_ONE) \div max_unigram_score)

\* C9: every candidate has the confidence absolute_score / max_unigram_score
\* of base dictionary 0, clamped into [0.0, 0.9]; none is above 0.9.
C9_ConfidenceNormalised ==
    AfterCallbacks =>
        \A c \in Candidates(results) :
            /\ c.confidence <= SUGGESTION_CANDIDATE_MAX_CONFIDENCE
            /\ c.confidence >= SUGGESTION_CANDIDATE_MIN_CONFIDENCE
            /\ c.confidence =
                   NormalisedConfidence(PrimaryProperties(c.text).absolute_score,
                                        base_dictionaries[1].max_unigram_score)

\* ------------------------------------------------------------------------
\* Claims about the n-gram levels and the sections of a file
\* ------------------------------------------------------------------------
LineWord(line) == trim(LineFields(line)[1])

\* The word lines of level `level` before line i.
LevelLinesBefore(lines, i, level) ==
    {j \in WordLinesBefore(lines, i) : LineLevel(lines[j]) = level}

\* The pairs <<w1, w2>> of a body: w2 on a level-2 word line, w1 on the last
\* level-1 word line before it.
ListedBigrams(lines) ==
    { << LineWord(lines[CHOOSE j \in LevelLinesBefore(lines, i, 1) :
                            \A k \in LevelLinesBefore(lines, i, 1) : k <= j]),
         LineWord(lines[i]) >> :
        i \in {k \in 1..Len(lines) : /\ IsWordLine(lines[k])
                                    /\ LineLevel(lines[k]) = 2
                                    /\ LevelLinesBefore(lines, k, 1) # {}} }

\* Section headers and word lines of level 1 and 2 only, every level-2 line
\* after a level-1 line.
WellFormedBigramBody(lines) ==
    /\ \A i \in 1..Len(lines) :
           /\ IsSectionLine(lines[i]) \/ IsWordLine(lines[i])
           /\ IsWordLine(lines[i]) => LineLevel(lines[i]) <= 2
           /\ ~ForbiddenLevelAt(lines, i)
    /\ ListedBigrams(lines) # {}

BigramTerminals(t) == {n \in Terminals(t) : Len(n) = 2}

\* C11: after the load of a well-formed body, the level-2 terminals of the
\* trie are exactly the pairs <<w1, w2>> with w2 listed under w1: each bigram
\* sits in the subsequent-words trie of the unigram it was listed under and of
\* no other.
C11_BigramsUnderTheirUnigram ==
    (pc # "init" /\ loaded_file.exists /\ WellFormedBigramBody(BodyLines(loaded_file))) =>
        /\ load_outcome = "ok"
        /\ BigramTerminals(dict.trie) = ListedBigrams(BodyLines(loaded_file))

\* The lines of a body that stand in the [words] section: after a [words]
\* header and before the next section header.  section is the header last read.
RECURSIVE KeepWordsSection(_, _)
KeepWordsSection(lines, section) ==
    IF lines = <<>> THEN <<>>
    ELSE IF IsSectionLine(Head(lines)) THEN KeepWordsSection(Tail(lines), Head(lines))
    ELSE (IF section = FLDIC_SECTION_WORDS THEN <<Head(lines)>> ELSE <<>>)
         \o KeepWordsSection(Tail(lines), section)

\* C12: a loaded dictionary holds what the lines of the [words] section give
\* and nothing else: the lines after a [shortcuts] header or an unknown
\* section header add no terminal and raise no maximum score.
C12_OnlyWordsSectionCounts ==
    (/\ pc = "ready"
     /\ loaded_file.exists
     /\ BodyLines(loaded_file) # <<>>
     /\ IsSectionLine(Head(BodyLines(loaded_file)))) =>
        LET only == DeserializeFrom(DeserializeStart,
                                    KeepWordsSection(BodyLines(loaded_file), <<>>))
        IN  /\ TerminalView(dict.trie) = TerminalView(only.trie)
            /\ dict.max_unigram_score = only.max_unigram_score
            /\ dict.max_bigram_score = only.max_bigram_score
            /\ dict.max_trigram_score = only.max_trigram_score

\* ------------------------------------------------------------------------
\* Claims about the query path
\* ------------------------------------------------------------------------
\* C13: no call of spell or suggest faults; on a session without a base
\* dictionary a call with a non-empty word returns, with no candidates and,
\* for spell, the unspecified result.
C13_QueryPathInfallible ==
    call.op # "none" =>
        /\ session_pc # "fault"
        /\ (session_pc = "returned" /\ base_dictionaries = <<>>) =>
               /\ results = <<>>
               /\ call.op = "spell" => spelling = unspecified

\* ------------------------------------------------------------------------
\* Claims about the wiktextract preprocessor
\* ------------------------------------------------------------------------
SeenWords == {prep_lines[i].word : i \in {j \in DOMAIN prep_lines : prep_lines[j].complete}}

PlainEvaluator(word) == MergedEvaluator(parsed_data, word, MERGING_MAX_DEPTH)

FormOfEvaluator(word) == MergedEvaluator(parsed_data, word, MERGING_MAX_DEPTH_WITH_FO)

CountsExclude(e) ==
    e.exclusion_count >= e.offensive_count /\ e.exclusion_count >= e.normal_count

HasForbiddenCodepoint(word) ==
    \E i \in 1..Len(word) : ~u_isalpha(word[i]) /\ word[i] # 39 /\ word[i] # 45

ShouldBeExcluded(word) ==
    \/ CountsExclude(PlainEvaluator(word))
    \/ CountsExclude(FormOfEvaluator(word))
    \/ HasForbiddenCodepoint(word)

ShouldBeOffensive(word) ==
    /\ ~ShouldBeExcluded(word)
    /\ FormOfEvaluator(word).offensive_count >= FormOfEvaluator(word).normal_count

Decided(branch) == {word \in DOMAIN prep_decision : prep_decision[word] = branch}

UnigramWords(t) == {LastKey(n) : n \in {m \in Terminals(t) : Len(m) = 1}}

RECURSIVE ParseLines(_, _, _)
ParseLines(parsed, filter, lines) ==
    IF lines = <<>> THEN parsed
    ELSE ParseLines(ReadLine(parsed, filter, Head(lines)), filter, Tail(lines))

RuleWithin(r1, r2) ==
    /\ r1.words \subseteq r2.words
    /\ r1.tags \subseteq r2.tags
    /\ r1.categories \subseteq r2.categories

\* g is f with further regexes, tags or categories in its excluded rule-set.
OnlyAddsExclusions(f, g) == f.offensive = g.offensive /\ RuleWithin(f.excluded, g.excluded)

\* C15: a word that the run excluded is excluded as well by a run over the
\* same lines under any filter that differs from the filter of the run only
\* by further entries of its excluded rule-set.
C15_FilterMonotonicity ==
    prep_pc \in {"inserting", "done"} =>
        \A i \in DOMAIN ConfigFilters :
            OnlyAddsExclusions(PrepFilter, ConfigFilters[i]) =>
                \A word \in Decided("excluded") :
                    InsertionBranch(ParseLines(<<>>, ConfigFilters[i], prep_lines), word)
                        = "excluded"

\* ------------------------------------------------------------------------
\* Claims about the score adjustment
\* ------------------------------------------------------------------------
\* unsigned u / 2
HalfScore(u) == IF u >= 0 THEN u \div 2 ELSE ((u \div 2) + HALF_RANGE) + HALF_RANGE

NeedsAdjustment(d, level) == ScoreLess(SCORE_ADJUSTMENT_THRESHOLD, MaxScoreOfLevel(d, level))

\* The dictionary d with the scores and the maximum of every level above the
\* threshold halved.
AdjustedDictionary(d) ==
    [d EXCEPT
        !.trie = [n \in DOMAIN d.trie |->
                     IF Len(n) <= 3 /\ NeedsAdjustment(d, Len(n))
                     THEN [d.trie[n] EXCEPT !.properties.absolute_score = HalfScore(@)]
                     ELSE d.trie[n]],
        !.max_unigram_score = IF NeedsAdjustment(d, 1) THEN HalfScore(@) ELSE @,
        !.max_bigram_score = IF NeedsAdjustment(d, 2) THEN HalfScore(@) ELSE @,
        !.max_trigram_score = IF NeedsAdjustment(d, 3) THEN HalfScore(@) ELSE @]

\* C16: a call of adjustScoresIfNecessary halves (rounding down) every
\* absolute_score and the maximum of each n-gram level whose maximum exceeds
\* SCORE_MAX - 128, leaves the other levels as they are, and returns false
\* when no level exceeds the threshold.
C16_AdjustHalvesOverflowingLevels ==
    [][(adjusted = "none" /\ adjusted' # "none") =>
           /\ dict' = AdjustedDictionary(dict)
           /\ (adjusted' = "false") <=> (\A level \in 1..3 : ~NeedsAdjustment(dict, level))]_vars

\* ------------------------------------------------------------------------
\* Claims about the costs of the fuzzy search
\* ------------------------------------------------------------------------
\* The stored words the result check does not pass over under the flags of
\* the call.
VisibleWords ==
    {word \in PrimaryWords :
        word # <<>> /\ ~IsIgnored(PrimaryProperties(word), call.flags)}

\* The edit distances the running search has reported or will report for word.
EmittedCosts(word) ==
    {pending[i].cost : i \in {j \in DOMAIN pending : pending[j].text = word}}
    \cup {c.edit_distance : c \in {d \in Candidates(results) \cup dropped : d.text = word}}

\* word with the graphemes at k and k + 1 exchanged
SwappedAt(word, k) ==
    [i \in DOMAIN word |-> IF i = k THEN word[k + 1] ELSE IF i = k + 1 THEN word[k] ELSE word[i]]

\* query is stored with two adjacent, distinct graphemes at positions >= 2
\* exchanged
IsTranspositionOf(query, stored) ==
    /\ Len(query) = Len(stored)
    /\ \E k \in 2..(Len(stored) - 1) :
           stored[k] # stored[k + 1] /\ query = SwappedAt(stored, k)

\* C17: a stored word of which the query is a transposition of two adjacent,
\* distinct graphemes at positions >= 2 is reported by the fuzzy search with
\* the edit distance COST_TRANSPOSE + PENALTY_DEFAULT, and with no other.
C17_TranspositionCost ==
    (session_pc = "searching" /\ call.word # <<>>) =>
        \A word \in VisibleWords :
            IsTranspositionOf(call.word, word)
                => EmittedCosts(word) = {COST_TRANSPOSE + PENALTY_DEFAULT}

\* stored differs from query in the case of exactly one grapheme and in
\* nothing else
DiffersInOneCase(query, stored) ==
    /\ Len(query) = Len(stored)
    /\ Cardinality({i \in DOMAIN query : query[i] # stored[i]}) = 1
    /\ \A i \in DOMAIN query : lowercase(query[i]) = lowercase(stored[i])

\* The texts of the candidates the cap has erased.
DroppedTexts == {c.text : c \in dropped}

\* C18: a stored word that differs from the query only in the case of exactly
\* one grapheme, the first included, is reported with the edit distance
\* COST_IS_OPPOSITE_CASE and no other, without a start-of-string penalty;
\* spell then returns LOOKS_LIKE_TYPO and the word is among the suggestions
\* unless the cap has erased it, and is the only suggestion when it is the
\* only visible word and the cap admits one.
C18_OppositeCaseCost ==
    /\ (session_pc = "searching" /\ call.word # <<>>) =>
           \A word \in VisibleWords :
               DiffersInOneCase(call.word, word)
                   => EmittedCosts(word) = {COST_IS_OPPOSITE_CASE}
    /\ (session_pc = "returned" /\ call.op = "spell" /\ call.word # <<>>) =>
           \A word \in VisibleWords :
               DiffersInOneCase(call.word, word) =>
                   /\ spelling.suggestion_attributes = RESULT_ATTR_LOOKS_LIKE_TYPO
                   /\ \/ \E i \in DOMAIN spelling.suggestions : spelling.suggestions[i] = word
                      \/ word \in DroppedTexts
                   /\ \A c \in Candidates(results) \cup dropped :
                          c.text = word => c.edit_distance = COST_IS_OPPOSITE_CASE
                   /\ (VisibleWords = {word} /\ maxSuggestionCount(call.flags) >= 1)
                          => spelling.suggestions = <<word>>

\* spell has returned the only visible word, which differs from the query in
\* the case of the first grapheme, as its only suggestion
C18_Witness ==
    /\ session_pc = "returned"
    /\ call.op = "spell"
    /\ call.word # <<>>
    /\ \E word \in VisibleWords :
           /\ DiffersInOneCase(call.word, word)
           /\ call.word[1] # word[1]
           /\ VisibleWords = {word}
           /\ spelling.suggestions = <<word>>
           /\ results[1].edit_distance = COST_IS_OPPOSITE_CASE

\* The cell (prefix_index, i) compares a trie grapheme that is neither the
\* query grapheme, nor its opposite case, nor the second half of a
\* transposition.
IsPlainSubstitution(state, prefix_index, chstr, i) ==
    /\ state.word_chars[i] # chstr
    /\ state.word_chars_opposite_case[i] # chstr
    /\ ~(/\ prefix_index > 1
         /\ i > 1
         /\ state.prefix_chars[prefix_index - 1] = state.word_chars[i]
         /\ chstr = state.word_chars[i - 1])

\* The state of the search at the node above the p-th grapheme of word.
StateAbove(word, p) ==
    StateAlong(FuzzySearchState("Proximity", MAX_COST, call.flags, call.word), 0,
               SubSeq(word, 1, p - 1))

\* C19: in every cell the search fills on the way to a reported word, a
\* plain substitution of a trie grapheme g for a query grapheme with
\* is_in_proximity(g, word_chars[i]) costs COST_SUBSTITUTE_IN_PROXIMITY plus
\* the penalty of the cell.
C19_ProximitySubstitution ==
    (session_pc = "searching" /\ call.word # <<>>) =>
        \A word \in EmittedWords :
            \A p \in 1..Len(word), i \in 1..Len(call.word) :
                (/\ IsPlainSubstitution(StateAbove(word, p), p, word[p], i)
                 /\ is_in_proximity(key_proximity_mapping, word[p], call.word[i]))
                    => SubstitutionCost(StateAbove(word, p), p, word[p], i)
                           = COST_SUBSTITUTE_IN_PROXIMITY + Penalty(p, i)

\* ------------------------------------------------------------------------
\* Claims about the project specific words
\* ------------------------------------------------------------------------
\* C20: after a run of the preprocessor every word of projectSpecificWords is
\* a unigram of the output dictionary with an absolute_score of exactly 1,
\* also when the input has put the word into the dictionary before or the
\* list names it more than once.
C20_ProjectWordsScoreOne ==
    prep_pc = "done" =>
        \A i \in DOMAIN prep_config.project_specific_words :
            LET word == prep_config.project_specific_words[i]
            IN  /\ <<word>> \in Terminals(prep_dict)
                /\ prep_dict[<<word>>].properties.absolute_score = 1

\* ------------------------------------------------------------------------
\* Claims about the merged evaluators
\* ------------------------------------------------------------------------
RECURSIVE SeqSum(_)
SeqSum(q) == IF q = <<>> THEN 0 ELSE Head(q) + SeqSum(Tail(q))

\* The references among form_ofs that name a parsed word with the part of
\* speech pos, one for every sense that made it.
RECURSIVE KeptReferences(_, _)
KeptReferences(form_ofs, pos) ==
    IF form_ofs = <<>> THEN <<>>
    ELSE (IF <<Head(form_ofs), pos>> \in DOMAIN parsed_data THEN <<Head(form_ofs)>> ELSE <<>>)
         \o KeptReferences(Tail(form_ofs), pos)

\* The sum of the counts of the words that e refers to.
ReferredCount(e, pos, count) ==
    LET refs == KeptReferences(e.form_ofs, pos)
    IN  SeqSum([r \in DOMAIN refs |-> parsed_data[<<refs[r], pos>>][count]])

\* 1x the own count of the entry, 2x the counts of the words it refers to, 3x
\* the counts of the words those refer to.
WeightedCount(e, pos, count) ==
    LET refs == KeptReferences(e.form_ofs, pos)
    IN  e[count]
        + 2 * ReferredCount(e, pos, count)
        + 3 * SeqSum([r \in DOMAIN refs |->
                         ReferredCount(parsed_data[<<refs[r], pos>>], pos, count)])

RECURSIVE SumOverPos(_, _, _, _)
SumOverPos(word, poss, count, weighted) ==
    IF poss = {} THEN 0
    ELSE LET pos == CHOOSE x \in poss : TRUE
             e == parsed_data[<<word, pos>>]
         IN  (IF weighted THEN WeightedCount(e, pos, count) ELSE e[count])
             + SumOverPos(word, poss \ {pos}, count, weighted)

\* The three counts of a word, summed over its parts of speech, in the
\* arithmetic of the short counters.
ExpectedCounts(word, weighted) ==
    [form_ofs |-> <<>>,
     exclusion_count |->
         ToShort(SumOverPos(word, PosOf(parsed_data, word), "exclusion_count", weighted)),
     offensive_count |->
         ToShort(SumOverPos(word, PosOf(parsed_data, word), "offensive_count", weighted)),
     normal_count |->
         ToShort(SumOverPos(word, PosOf(parsed_data, word), "normal_count", weighted))]

C22_SubsequentWordsOrCreate ==
    pc = "ready" =>
        \A n \in DOMAIN dict.trie :
            LET made == subsequent_words_or_create(dict.trie, n)
            IN  /\ made.node = SubsequentRoot(n)
                /\ made.node \in DOMAIN made.trie
                /\ \A m \in DOMAIN dict.trie : m \in DOMAIN made.trie /\ made.trie[m] = dict.trie[m]
                /\ DOMAIN made.trie \subseteq DOMAIN dict.trie \cup {SubsequentRoot(n)}

\* Every node of d is a node of e with the same properties, and every
\* terminal of d is a terminal of e.
KeepsNodes(d, e) ==
    \A m \in DOMAIN d.trie :
        /\ m \in DOMAIN e.trie
        /\ e.trie[m].properties = d.trie[m].properties
        /\ d.trie[m].is_terminal => e.trie[m].is_terminal

\* C23: inserting a unigram that is present changes nothing; inserting a
\* bigram or a trigram whose first word is present completes and leaves the
\* score and the flags of every node that was there, and every terminal, as
\* they were.
C23_InsertKeepsExisting ==
    [][\A w1 \in Words :
           <<w1>> \in Terminals(dict.trie) =>
               /\ Insert1(w1) => dict' = dict
               /\ \A w2 \in Words :
                      Insert2(w1, w2) => (pc' = "ready" /\ KeepsNodes(dict, dict'))
               /\ \A w2, w3 \in Words :
                      Insert3(w1, w2, w3) => (pc' = "ready" /\ KeepsNodes(dict, dict'))]_vars

\* ------------------------------------------------------------------------
\* Claims about the comparator
\* ------------------------------------------------------------------------
\* C24: for candidates with confidences anywhere in [0.0, 1.0]
\* suggestions_sorter ranks a before b whenever a.edit_distance <
\* b.edit_distance, ranks by the higher confidence when the edit distances
\* are equal, and is a strict weak ordering.
C24_SorterIsTheSortKey ==
    session_pc = "sorting" =>
        /\ \A i, j \in DOMAIN results :
               /\ results[i].edit_distance < results[j].edit_distance
                      => suggestions_sorter(results[i], results[j])
               /\ results[i].edit_distance = results[j].edit_distance
                      => (suggestions_sorter(results[i], results[j])
                              <=> results[i].confidence > results[j].confidence)
        /\ IsStrictWeakOrderOn(results)

\* ------------------------------------------------------------------------
\* Claims about the two merged evaluators
\* ------------------------------------------------------------------------
\* C25: a word that passes the validation of its graphemes is excluded only
\* if the plain and the form-of-aware merged evaluator both decide
\* exclusion; a word that only one of them excludes is kept.
C25_ExcludedOnlyIfBothDecide ==
    prep_pc \in {"inserting", "done"} =>
        \A word \in DOMAIN prep_decision :
            validate_word(word) =>
                (prep_decision[word] = "excluded"
                     <=> (/\ CountsExclude(PlainEvaluator(word))
                          /\ CountsExclude(FormOfEvaluator(word))))

\* ------------------------------------------------------------------------
\* Claims about the range of the scores
\* ------------------------------------------------------------------------
ScoreInRange(u) == u >= 0 /\ u <= SCORE_MAX

\* C26: in a dictionary that was loaded without error, and after the inserts
\* and increments that follow, the absolute_score of every terminal and the
\* three maxima lie in 0..SCORE_MAX; a negative score field or one above
\* SCORE_MAX is never stored as it stands or wrapped.
C26_ScoresInRange ==
    pc = "ready" =>
        /\ \A n \in Terminals(dict.trie) : ScoreInRange(dict.trie[n].properties.absolute_score)
        /\ \A level \in 1..3 : ScoreInRange(MaxScoreOfLevel(dict, level))

\* ------------------------------------------------------------------------
\* Claims about GoogleUnigramDatabase::load
\* ------------------------------------------------------------------------
\* C27: in every interleaving of the tasks the shared vector is appended to
\* only by a task that holds guard; normalize_and_insert_partitions starts
\* only when every pushed task has finished, and is handed exactly one
\* Partition for every pushed task; the database map is written by the
\* calling thread alone.
C27_PartitionsGuarded ==
    /\ \A i \in DOMAIN partitions : partitions[i].holder = partitions[i].name
    /\ \A t \in Tasks :
           Cardinality({i \in DOMAIN partitions : partitions[i].name = t}) <= 1
    /\ ngram_pc \in {"normalize", "done"} =>
           /\ dir_entries = <<>>
           /\ task_queue = <<>>
           /\ \A t \in Tasks : task_pc[t] = "finished"
           /\ {partitions[i].name : i \in DOMAIN partitions} = Tasks
           /\ Len(partitions) = Cardinality(Tasks)
    /\ ngram_pc = "done" =>
           /\ Len(seen_partitions) = Cardinality(Tasks)
           /\ {seen_partitions[i] : i \in DOMAIN seen_partitions} = Tasks
    /\ database_writers \subseteq {MainThread}

\* the database was filled from three partitions whose tasks finished in
\* another order than they were pushed
C27_Witness ==
    /\ ngram_pc = "done"
    /\ Len(seen_partitions) = 3
    /\ seen_partitions[1] # 1
    /\ database_writers = {MainThread}

\* The loads of a session, before its first query.
LoadsNext ==
    \/ \E data \in ProximityMaps : LoadKeyProximityMap(data)
    \/ \E file \in SessionFiles : LoadBaseDictionary(file)
    \/ \E file \in UserFiles : LoadUserDictionary(file)

SpecLoads == SessionSpecInit /\ [][LoadsNext]_vars

\* The words spell finds valid before any search: those of the first base
\* dictionary.
ValidWordsOfSession(bases) ==
    IF bases = <<>> THEN {}
    ELSE {w \in QueryWords \ {<<>>} : IsValidWord(bases[1].trie, w)}

\* The on_result calls a query of the session makes.
SearchesOfSession(bases, type, word) ==
    IF bases = <<>> THEN {}
    ELSE fuzzySearch(bases[1].trie, Root, type, MAX_COST, 0, word)

SessionAsItWas ==
    /\ base_dictionaries' = base_dictionaries
    /\ user_dictionary' = user_dictionary
    /\ key_proximity_mapping' = key_proximity_mapping
    /\ session_pc' = session_pc
    /\ ValidWordsOfSession(base_dictionaries') = ValidWordsOfSession(base_dictionaries)
    /\ SearchesOfSession(base_dictionaries', "ProximityWithoutSelf", <<65>>)
           = SearchesOfSession(base_dictionaries, "ProximityWithoutSelf", <<65>>)
    /\ SearchesOfSession(base_dictionaries', "ProximityOrPrefix", <<100, 111>>)
           = SearchesOfSession(base_dictionaries, "ProximityOrPrefix", <<100, 111>>)

\* C28: a load whose constructor throws (the file cannot be opened, or a
\* line of it cannot be parsed) leaves the session as it was: the list of base
\* dictionaries and the user dictionary are unchanged, nothing partially read
\* is appended, and spell and suggest answer as before the load.
C28_FailedLoadLeavesSession ==
    [][session_pc = "idle" /\ call'.thrown # "none"
           => \A file \in SessionFiles \cup UserFiles :
                  LoadBaseDictionary(file) \/ LoadUserDictionary(file) => SessionAsItWas]_vars

\* A base dictionary and a user dictionary are loaded and the last load broke
\* off with the exception of a line that cannot be parsed, after a line that
\* could.
C28_Witness ==
    /\ call.op = "loadBaseDictionary"
    /\ call.thrown = "invalid_argument"
    /\ Len(base_dictionaries) = 1
    /\ user_dictionary.loaded

\* The results a query leaves when every on_result call of pending has run,
\* from the results so far: one list per order std::sort may give.
RECURSIVE ResultsAfter(_, _, _)
ResultsAfter(pending_calls, results_so_far, flags) ==
    IF pending_calls = <<>> THEN {results_so_far}
    ELSE LET found == Head(pending_calls)
             pushed == Append(results_so_far,
                              MakeCandidate(found.text, found.node, found.cost))
         IN  UNION {ResultsAfter(Tail(pending_calls), EraseOverflow(sorted, flags), flags) :
                        sorted \in sort(pushed)}

\* The results of a query as a function of the first base dictionary, the
\* operation, the word and the flags, and of nothing else.
AnswersOfFirstDictionary(first, op, word, flags) ==
    IF word = <<>> \/ (op = "spell" /\ IsValidWord(first.trie, word)) THEN {<<>>}
    ELSE UNION {ResultsAfter(calls, <<>>, flags) :
                    calls \in fuzzySearch(first.trie, Root,
                                          IF op = "spell" THEN "ProximityWithoutSelf"
                                          ELSE "ProximityOrPrefix",
                                          MAX_COST, flags, word)}

\* Sessions with every combination of loads, asked a few queries: "", "duk",
\* "ab", "dpck", with max_suggestion_count 2 and 8.
FewQueryWords == {<<>>, <<100, 117, 107>>, <<97, 98>>, <<100, 112, 99, 107>>}

FewQueryFlags == {2, 8}

QueriesNext ==
    \/ LoadsNext
    \/ \E word \in FewQueryWords, flags \in FewQueryFlags : Spell(word, flags)
    \/ \E word \in FewQueryWords, flags \in FewQueryFlags : Suggest(word, flags)
    \/ OnResult
    \/ Return

SpecQueries == SessionSpecInit /\ [][QueriesNext]_vars

QueryStep ==
    \/ \E word \in QueryWords, flags \in QueryFlags : Spell(word, flags) \/ Suggest(word, flags)
    \/ OnResult
    \/ Return

\* C29: the results of spell and suggest are a function of the first base
\* dictionary, the word and the flags: further base dictionaries, the user
\* dictionary and the proximity map of the session change nothing; and no
\* step of a query changes a loaded dictionary.
C29_FirstDictionaryOnly ==
    [][/\ QueryStep => /\ base_dictionaries' = base_dictionaries
                       /\ user_dictionary' = user_dictionary
       /\ session_pc # "returned" /\ session_pc' = "returned"
              => /\ results' \in AnswersOfFirstDictionary(base_dictionaries'[1], call'.op,
                                                          call'.word, call'.flags)
                 /\ call'.op = "spell" /\ spelling' # validWord /\ call'.word # <<>>
                        => spelling' = typo([i \in DOMAIN results' |-> results'[i].text], FALSE)
      ]_vars

\* A query has returned results in a session with a second base dictionary
\* that differs from the first, a user dictionary and a proximity map.
C29_Witness ==
    /\ session_pc = "returned"
    /\ results # <<>>
    /\ Len(base_dictionaries) = 2
    /\ base_dictionaries[2] # base_dictionaries[1]
    /\ user_dictionary.loaded
    /\ key_proximity_mapping # {}

\* The word of key refers to itself, or to a word that refers back to it.
IsCyclic(key) ==
    \E r \in DOMAIN parsed_data[key].form_ofs :
        LET form_of == parsed_data[key].form_ofs[r]
        IN  \/ form_of = key[1]
            \/ /\ <<form_of, key[2]>> \in DOMAIN parsed_data
               /\ \E q \in DOMAIN parsed_data[<<form_of, key[2]>>].form_ofs :
                      parsed_data[<<form_of, key[2]>>].form_ofs[q] = key[1]

\* The word of key refers to a word that is not parsed with its part of speech.
HasSkippedReference(key) ==
    Len(KeptReferences(parsed_data[key].form_ofs, key[2])) < Len(parsed_data[key].form_ofs)

MaxFormOfs ==
    LET lens == {Len(parsed_data[k].form_ofs) : k \in DOMAIN parsed_data}
    IN  IF lens = {} THEN 0 ELSE CHOOSE n \in lens : \A m \in lens : m <= n

\* C30: merge_evaluator_counts ends for every parsed input, cyclic and
\* self-referring form_of references included: no call is deeper than
\* max_depth, the plain evaluator makes the one call at depth 0, the form-of
\* aware one at most 1 + n + n * n calls for n references a word, and a
\* reference to a word that is absent or has not the part of speech makes no
\* call.
C30_MergeDepthBounded ==
    prep_pc \in {"reading", "inserting"}
        => \A key \in DOMAIN parsed_data :
               LET plain == MergeCalls(parsed_data, parsed_data[key], key[2],
                                       MERGING_MAX_DEPTH, 0)
                   with_fo == MergeCalls(parsed_data, parsed_data[key], key[2],
                                         MERGING_MAX_DEPTH_WITH_FO, 0)
                   kept == KeptReferences(parsed_data[key].form_ofs, key[2])
               IN  /\ plain = <<0>>
                   /\ \A c \in DOMAIN with_fo : with_fo[c] \in 0..MERGING_MAX_DEPTH_WITH_FO
                   /\ Len(with_fo) <= 1 + MaxFormOfs + MaxFormOfs * MaxFormOfs
                   /\ Len(SelectSeq(with_fo, LAMBDA d : d = 1)) = Len(kept)

\* The insertion loop has merged a word that refers to itself or lies on a
\* cycle of two, to the full depth, and a word with a reference that is
\* skipped.
C30_Witness ==
    /\ prep_pc = "inserting"
    /\ prep_todo = <<>>
    /\ \E key \in DOMAIN parsed_data :
           /\ IsCyclic(key)
           /\ \E c \in DOMAIN MergeCalls(parsed_data, parsed_data[key], key[2],
                                         MERGING_MAX_DEPTH_WITH_FO, 0) :
                  MergeCalls(parsed_data, parsed_data[key], key[2],
                             MERGING_MAX_DEPTH_WITH_FO, 0)[c] = MERGING_MAX_DEPTH_WITH_FO
    /\ \E key \in DOMAIN parsed_data : HasSkippedReference(key)

====
